---- MODULE Spec2Model ----
(***************************************************************************)
(* kvstore: the typed key/value store of src/unnamed/part_011 (package     *)
(* kvstore), its watcher registry and the goroutines that use them.        *)
(*                                                                         *)
(* A store with subscriptions is modelled with its table as a function of *)
(* the keys: goroutines call TrySet/TryDelete, SetNX, GetOr, Transaction,  *)
(* Watch, the cancel closure Watch returns, StopAllWatchers, and receive   *)
(* from the channels Watch returns.  Stores without subscriptions are      *)
(* modelled with their tables as sets of rows of encoded text, for the     *)
(* statements and the iterators; and New with the shared handle.  Every    *)
(* statement that touches shared state (a table, the registry map, the     *)
(* RWMutex, a channel, the stop flag, sharedDB) is a step of its own, so   *)
(* that the interleavings of the code are the behaviours of the model.     *)
(***************************************************************************)
EXTENDS Integers, Sequences, FiniteSets, TLC

(***************************************************************************)
(* Program constants and bounds                                            *)
(***************************************************************************)
\* make(chan WatchEvent[T1, T2], 10)
ChanCap == 10

\* number of calls (Set, Delete, SetNX, GetOr, Watch, cancel, StopAllWatchers,
\* Transaction and the operations of its Tx, TryGet, TryHas, TryClear, an
\* iteration, New) of a run
MaxCalls == 4
\* a burst workload makes, besides, ChanCap calls of Set on one key and then
\* BurstExtra calls of Set or Delete on it
BurstExtra == 1
\* the clock readings time.Now().UnixNano() can return are 0..MaxClock
MaxClock == 1
\* number of operations the function passed to Transaction makes on its Tx
MaxTxOps == 2

\* goroutines that call TrySet / TryDelete
Writers == {"g1", "g2"}
\* watcher objects Watch can create
Subs == {"s1", "s2"}
\* invocations of one subscription's cancel closure
Callers == {"c1", "c2"}

Keys == {"k1", "k2"}
Vals == {"v1", "v2"}
\* the zero value of T2 (var oldValue T2), also "no row" in the table
NoVal == "zero"
\* no goroutine / no watcher
None == "none"
\* history: a key the transaction has not written
Unwritten == "unwritten"

VARIABLES
    load,       \* the workload of this run: "mixed", "burst", "tx", "prefix", ...
    budget,     \* calls still to be made
    burst,      \* Set calls of the burst still to be made
    db,         \* the table: key -> stored value, NoVal when there is no row
    nextSeq,    \* history: number of store-level writes the backend has applied
    call,       \* per writer: the TrySet/TryDelete call in progress (see IdleCall)
    ws,         \* per watcher: the watcher struct and its channels (see NoWatcher)
    watchers,   \* the registry map r.watchers, a set of <<id, watcher>>
    muWriter,   \* r.mu: TRUE while a goroutine is inside Lock() (waiting for the
                \* readers to leave, or holding the lock)
    readers,    \* r.mu: the writers holding RLock
    cpc,        \* per watcher and caller: position in the cancel closure
    spc,        \* position of the goroutine calling StopAllWatchers
    swept,      \* history: watchers returned by Watch before a StopAllWatchers ran
    clock,      \* the last reading of time.Now().UnixNano()
    cons,       \* per watcher: its consumer, "ranging" or "ended"
    fault,      \* the panic that ended the process, or None
    tx,         \* the call of Transaction in progress (see IdleTx)
    rd,         \* the goroutine that calls TryGet and TryClear (see IdleReader)
    tables,     \* the tables of the backend, each a set of rows of encoded text
    shadow,     \* history: per store, the map its calls have built
    cl,         \* per goroutine: its call on a store of rows (see IdleClient)
    boot        \* the shared handle: sharedDB, dbOnce and the calls of New

vars == <<load, budget, burst, db, nextSeq, call, ws, watchers, muWriter, readers,
          cpc, spc, swept, clock, cons, fault, tx, rd, tables, shadow, cl, boot>>

(***************************************************************************)
(* Pure helpers                                                            *)
(***************************************************************************)
\* fmt.Sprintf("%v", key) for the string keys of the model: the characters of
\* the key
Render(k) == IF k = "k1" THEN <<"k", "1">> ELSE <<"k", "2">>

\* the prefixes a prefix subscription can be made for
Prefixes == {<<"k">>, <<"k", "1">>, <<"u">>}

\* faulty variant, for comparison: a test of the first character only
HasPrefixFirstChar(str, p) == Len(p) <= Len(str) /\ str[1] = p[1]

\* strings.HasPrefix(str, p)
HasPrefix(str, p) == Len(p) <= Len(str) /\ SubSeq(str, 1, Len(p)) = p

\* fmt.Sprintf("%v_%d", key, time.Now().UnixNano())
WatcherId(k, nano) == <<Render(k), nano>>

\* r.watchers[id] = w
MapPut(m, id, w) == {p \in m : p[1] # id} \cup {<<id, w>>}

\* faulty variant, for comparison: a delete that leaves the entry
MapDeleteKept(m, id) == m

\* delete(r.watchers, id)
MapDelete(m, id) == {p \in m : p[1] # id}

\* the watchers a range over the map visits
MapValues(m) == {p[2] : p \in m}

\* faulty variant, for comparison: the map is kept
MapResetKept(m) == m

\* make(map[string]*watcher[T1, T2]) in place of the map m
MapReset(m) == {}

\* WatchEvent, with the serial number of the write as history
Event(type, k, v, old, seq) ==
    [type |-> type, key |-> k, value |-> v, old |-> old, seq |-> seq]

(***************************************************************************)
(* The workload                                                            *)
(***************************************************************************)
SetOp(k, v) == [type |-> "Set", key |-> k, value |-> v]
DeleteOp(k) == [type |-> "Delete", key |-> k, value |-> NoVal]

\* a value of a type encoding/json cannot encode (a channel, a function, NaN)
Unserializable == "unserializable"

\* the calls a run may make
LoadOps(l) ==
    IF l \in {"burst", "tx", "late"}
    THEN {SetOp("k1", "v1"), DeleteOp("k1")}
    ELSE IF l = "fail"
    THEN {SetOp("k1", "v1"), SetOp("k1", Unserializable), DeleteOp("k1")}
    ELSE IF l = "nx"
    THEN {SetOp("k1", "v2"), DeleteOp("k1")}
    ELSE IF l = "prefix"
    THEN {SetOp("k1", "v1"), SetOp("k2", "v1"), DeleteOp("k1")}
    ELSE {SetOp("k1", "v1"), SetOp("k1", "v2"), DeleteOp("k1"), SetOp("k2", "v1")}

\* the goroutines that make them
LoadWriters(l) ==
    IF l \in {"burst", "tx", "prefix", "late"} THEN {"g1"}
    ELSE IF l = "nx" THEN {"g2"} ELSE Writers

LoadBurst(l) == IF l = "burst" THEN ChanCap + BurstExtra ELSE 0

Alive == fault = None

\* the order of a burst: the subscriptions are made before its first Set, the
\* Sets that can fill a buffer come before the other calls, and cancel and
\* StopAllWatchers are called once a buffer is full
SubscribePhase == load = "burst" => burst = LoadBurst(load)
FillPhase(o) == (load = "burst" /\ burst > BurstExtra) => o.type = "Set"
TeardownPhase == load = "burst" => \E w \in Subs : Len(ws[w].ch) = ChanCap

(***************************************************************************)
(* Initial state: the store NewAt returned, an empty table and registry    *)
(***************************************************************************)
\* a writer outside TrySet/TryDelete
\*   pc          position in TrySet/TryDelete/notify
\*   op          the call [type, key, value]
\*   oldValue, hadOldValue   the results of getOldValue
\*   seq         history: serial number of the call's backend write, 0 if none
\*   regAtWrite  history: the subscriptions registered when the write was applied
\*               (kept in the workload "late", whose property reads it)
\*   todo        watchers the range loop of notify has not visited
\*   cur         the watcher the range loop is at
\*   result      "none", "ok" or "err"
\*   liveAtCall  history: subscriptions returned and not cancelled at the call
\*   goneAtCall  history: subscriptions whose cancel had returned, or that a
\*               StopAllWatchers had stopped, at the call
\*   delivered   history: per watcher, the events the call has placed on its channel
\*   nx          the call of SetNX this call is part of (see NoNX)
\* a call that is not part of SetNX
\*   on        the call is SetNX(op.key, op.value)
\*   had, val  the answer of s.Has(key), and history: the value the row held then
\*   seq       history: nextSeq at s.Has(key)
\*   clean     history: no write was applied between s.Has(key) and the first
\*             statement of the s.Get(key) or s.Set(key, value) that followed
\*   out       the value SetNX returns
NoNX == [on |-> FALSE, had |-> FALSE, val |-> NoVal, seq |-> 0, clean |-> FALSE,
         out |-> NoVal]

IdleCall ==
    [pc |-> "idle", op |-> DeleteOp("k1"), oldValue |-> NoVal, hadOldValue |-> FALSE,
     seq |-> 0, todo |-> {}, cur |-> None, result |-> "none", liveAtCall |-> {},
     goneAtCall |-> {}, delivered |-> [w \in Subs |-> 0], nx |-> NoNX,
     regAtWrite |-> {}]

\* a watcher Watch has not built
\*   state    "none", "locking" (Watch waits for mu) or "live" (Watch returned)
\*   key, id  w.key, w.id
\*   prefix   w.prefix (key and prefix are None where the struct holds nil)
\*   ch, chClosed   the buffered channel w.ch
\*   stopCh   w.stopCh is closed
\*   stopped  w.stopped
\*   lastSeq  history: serial number of the last event placed on w.ch
NoWatcher ==
    [state |-> "none", key |-> "k1", prefix |-> None, id |-> WatcherId("k1", 0),
     ch |-> << >>, chClosed |-> FALSE, stopCh |-> FALSE, stopped |-> FALSE,
     lastSeq |-> 0]

\* no call of Transaction
\*   pc        "idle", "open" (fn runs), "end" (fn returned) or "done"
\*   began     the backend transaction has its snapshot (taken by its first statement)
\*   view      the table as the statements of the transaction see it
\*   wrote     the transaction holds the backend's writer lock
\*   ops       number of Tx operations fn has made
\*   fnErr     fn returned an error
\*   result    what Transaction returned: "none", "ok" or "err"
\*   err       the error Transaction returned: the message and the errors put
\*             into it, in order; empty for nil
\*   failed    history: the backend call that failed: "none", "begin", "rollback"
\*             or "commit"
\*   got, gotKey   the result of the last Tx.Get and its key
\*   start, startSeq   history: the table and nextSeq when Transaction was called
\*   last      history: per key, the last value written through the Tx
\*   expect    history: last[gotKey] at the last Tx.Get
\*   liveAtBegin   history: the live subscriptions when Transaction was called
IdleTx ==
    [pc |-> "idle", began |-> FALSE, view |-> [k \in Keys |-> NoVal], wrote |-> FALSE,
     ops |-> 0, fnErr |-> FALSE, result |-> "none", got |-> NoVal, gotKey |-> None,
     start |-> [k \in Keys |-> NoVal], startSeq |-> 0,
     last |-> [k \in Keys |-> Unwritten], expect |-> Unwritten, liveAtBegin |-> {},
     err |-> << >>, failed |-> "none"]

\* the goroutine that calls TryGet and TryClear has made no call
\*   op        the last call: "none", "Get", "Clear" or "ClearErr"
\*   n         number of calls made
\*   key, got  the key and the result of the last TryGet
\*   pre       history: the value the key had when Transaction was called, if the
\*             TryGet ran during the transaction and no store-level write was
\*             applied since; Unwritten otherwise
\*   txLast    history: the value the open transaction had written to the key
\*   removed   history: the keys that had a row before the last TryClear
\*   dflt      the default value of the last GetOr
IdleReader ==
    [op |-> "none", n |-> 0, key |-> None, got |-> NoVal, pre |-> Unwritten,
     txLast |-> Unwritten, removed |-> {}, dflt |-> NoVal]

\* the keys of a store with integer keys, and the table names New is called with
IntKeys == {1, 2, 10}
StoreNames == {"kv", "KV", "log"}

\* the table a statement names: the backend resolves a table name without regard
\* to the case of its letters
TableOf(name) == IF name = "KV" THEN "kv" ELSE name

PhysTables == {TableOf(name) : name \in StoreNames}

\* the stores a workload uses
LoadStores(l) == IF l = "tables" THEN StoreNames ELSE {"kv"}

\* json.Marshal of an int: its decimal digits, as bytes
RECURSIVE FormatInt(_)
FormatInt(n) ==
    IF n < 10 THEN <<48 + n>> ELSE FormatInt(n \div 10) \o <<48 + (n % 10)>>

\* json.Unmarshal into an int
RECURSIVE ParseInt(_)
ParseInt(b) ==
    IF Len(b) = 0 THEN 0
    ELSE 10 * ParseInt(SubSeq(b, 1, Len(b) - 1)) + (b[Len(b)] - 48)

\* the bytes of a string value
StringBytes(v) == IF v = "v1" THEN <<118, 49>> ELSE <<118, 50>>

\* json.Marshal of a string: its bytes between double quotes
MarshalString(v) == <<34>> \o StringBytes(v) \o <<34>>

\* json.Unmarshal into a string
UnmarshalString(b) == CHOOSE v \in Vals : StringBytes(v) = SubSeq(b, 2, Len(b) - 1)

\* a row of the table (key PRIMARY KEY, value)
Row(ek, ev) == [key |-> ek, value |-> ev]

\* faulty variant, for comparison: an INSERT that replaces every row
InsertReplacingAll(rows, ek, ev) == {Row(ek, ev)}

\* faulty variant, for comparison: an INSERT that keeps the row it should replace
InsertKeepingOld(rows, ek, ev) == rows \cup {Row(ek, ev)}

\* INSERT OR REPLACE INTO table (key, value) VALUES (?, ?)
InsertOrReplace(rows, ek, ev) == {r \in rows : r.key # ek} \cup {Row(ek, ev)}

\* DELETE FROM table WHERE key = ?
DeleteWhereKey(rows, ek) == {r \in rows : r.key # ek}

\* SELECT value FROM table WHERE key = ?
SelectWhereKey(rows, ek) == {r \in rows : r.key = ek}

\* the order of two texts in the backend: byte by byte, a proper prefix first
BytesLess(a, b) ==
    \E i \in 1..(Len(a) + 1) :
        /\ i <= Len(b)
        /\ \A j \in 1..(i - 1) : a[j] = b[j]
        /\ (i = Len(a) + 1 \/ a[i] < b[i])

\* faulty variant, for comparison: rows ordered by the number the key encodes
RECURSIVE OrderByNumber(_)
OrderByNumber(rows) ==
    IF rows = {} THEN << >>
    ELSE LET m == CHOOSE r \in rows : \A q \in rows : ParseInt(r.key) <= ParseInt(q.key)
         IN  <<m>> \o OrderByNumber(rows \ {m})

\* SELECT key, value FROM table ORDER BY key
RECURSIVE OrderByKey(_)
OrderByKey(rows) ==
    IF rows = {} THEN << >>
    ELSE LET m == CHOOSE r \in rows : \A q \in rows : ~BytesLess(q.key, r.key)
         IN  <<m>> \o OrderByKey(rows \ {m})

\* ... ORDER BY key DESC
OrderByKeyDesc(rows) ==
    [i \in 1..Cardinality(rows) |-> OrderByKey(rows)[Cardinality(rows) + 1 - i]]

\* a goroutine that has made no call on a store of rows
\*   pc        "idle", "exec" (TrySet / TryDelete before its write statement) or
\*             "rows" (inside the rows.Next() loop of an iteration)
\*   store, fn, key, value   the call: its store, function and arguments
\*   result    what the call returned: "none", "ok" or "ErrNoRows"
\*   got, has  the value TryGet returned, the answer of TryHas
\*   pending   the rows the cursor has not produced yet
\*   cursor    "none", "open" or "closed" (rows.Close() has run)
\*   visited   the keys the callback was invoked with, in order
\*   stopped   the callback returned false
\*   want      history: what the store's map held for the key at the statement
\*   changed   history: the statement changed a table
\*   snapshot  history: the rows of the table when the query ran
IdleClient ==
    [pc |-> "idle", store |-> None, fn |-> "none", key |-> 0, value |-> NoVal,
     result |-> "none", got |-> NoVal, has |-> FALSE, pending |-> << >>,
     cursor |-> "none", visited |-> << >>, stopped |-> FALSE, want |-> NoVal,
     changed |-> FALSE, snapshot |-> {}, failed |-> FALSE]

\* a goroutine that has not called New
\*   pc        position in New / getSharedDB
\*   err       the variable err of its call of getSharedDB
\*   db        the handle getSharedDB returned to it (0 is nil)
\*   result    "none", "store" (New returned a store bound to db) or "panic"
\*   first     history: the call ran the function of dbOnce.Do
IdleNew == [pc |-> "idle", err |-> None, db |-> 0, result |-> "none", first |-> FALSE]

\* the package variables sharedDB and dbOnce before the first call of New
\*   once      dbOnce: "fresh", "running" (its function is being run) or "done"
\*   step      position of the goroutine that runs the function of dbOnce.Do
\*   sharedDB  0 (nil) or the number of the handle sql.Open returned
\*   tuned     the number of pragmas executed on the handle
\*   pooled    the pool bounds were set
\*   runs      history: times the function of dbOnce.Do was started
\*   opens     history: handles sql.Open has returned
\*   new       per goroutine: its call of New (see IdleNew)
IdleBoot ==
    [once |-> "fresh", sharedDB |-> 0, tuned |-> 0, pooled |-> FALSE,
     runs |-> 0, opens |-> 0, new |-> [t \in Writers |-> IdleNew]]

\* the store NewAt returned
InitStore ==
    /\ budget = MaxCalls
    /\ burst = LoadBurst(load)
    /\ db = [k \in Keys |-> NoVal]
    /\ nextSeq = 0
    /\ call = [t \in Writers |-> IdleCall]
    /\ ws = [w \in Subs |-> NoWatcher]
    /\ watchers = {}
    /\ muWriter = FALSE
    /\ readers = {}
    /\ cpc = [w \in Subs |-> [c \in Callers |-> "idle"]]
    /\ spc = "idle"
    /\ swept = {}
    /\ clock = 0
    /\ cons = [w \in Subs |-> "ranging"]
    /\ fault = None
    /\ tx = IdleTx
    /\ rd = IdleReader
    /\ tables = [p \in PhysTables |-> {}]
    /\ shadow = [s \in StoreNames |-> [k \in IntKeys |-> NoVal]]
    /\ cl = [t \in Writers |-> IdleClient]
    /\ boot = IdleBoot

Init == load \in {"mixed", "burst"} /\ InitStore

(***************************************************************************)
(* TrySet / TryDelete                                                      *)
(***************************************************************************)
\* getOldValue: SELECT value FROM table WHERE key = ?
getOldValue(k) == <<db[k], db[k] # NoVal>>

\* subscriptions whose Watch has returned and whose stop signal is not raised
LiveSubs == {w \in Subs : ws[w].state = "live" /\ ~ws[w].stopCh}

\* subscriptions one of whose cancel calls has returned, or stopped by StopAllWatchers
GoneSubs == {w \in Subs : w \in swept \/ \E c \in Callers : cpc[w][c] = "done"}

\* TrySet / TryDelete is called; its first statement reads the old value
Begin(t, o) ==
    /\ Alive
    /\ t \in LoadWriters(load)
    /\ call[t].pc = "idle"
    /\ FillPhase(o)
    /\ IF load = "burst"
       THEN burst > 0 /\ burst' = burst - 1 /\ UNCHANGED budget
       ELSE budget > 0 /\ budget' = budget - 1 /\ UNCHANGED burst
    /\ call' = [call EXCEPT ![t] =
                  [IdleCall EXCEPT !.pc = "exec", !.op = o,
                                   !.oldValue = getOldValue(o.key)[1],
                                   !.hadOldValue = getOldValue(o.key)[2],
                                   !.liveAtCall = LiveSubs,
                                   !.goneAtCall = GoneSubs]]
    /\ UNCHANGED <<load, db, nextSeq, ws, watchers, muWriter, readers, cpc, spc, swept,
                   clock, cons, fault, tx, rd, tables, shadow, cl, boot>>

\* faulty variant, for comparison: a backend with no writer lock
BackendAlwaysWritable == TRUE

\* a statement outside a transaction that writes waits (up to the busy timeout)
\* while a transaction holds the backend's writer lock
BackendWritable == ~tx.wrote

\* faulty variant, for comparison: an encoder that accepts every value
MarshalsAnything(v) == TRUE

\* json.Marshal(value) returns no error
Marshals(v) == v # Unserializable

\* json.Marshal(value) returns an error: TrySet returns it before its statement
MarshalFail(t) ==
    /\ Alive
    /\ call[t].pc = "exec"
    /\ call[t].op.type = "Set"
    /\ ~Marshals(call[t].op.value)
    /\ call' = [call EXCEPT ![t].pc = "ret", ![t].result = "err"]
    /\ UNCHANGED <<load, budget, burst, db, nextSeq, ws, watchers, muWriter, readers,
                   cpc, spc, swept, clock, cons, fault, tx, rd, tables, shadow, cl, boot>>

\* the subscriptions Watch has put into the registry
Registered == IF load = "late" THEN {w \in Subs : ws[w].state = "live"} ELSE {}

\* INSERT OR REPLACE INTO table (key, value) VALUES (?, ?), then notify
TrySetExec(t) ==
    /\ Alive
    /\ call[t].pc = "exec"
    /\ call[t].op.type = "Set"
    /\ Marshals(call[t].op.value)
    /\ BackendWritable
    /\ db' = [db EXCEPT ![call[t].op.key] = call[t].op.value]
    /\ nextSeq' = nextSeq + 1
    /\ call' = [call EXCEPT ![t].seq = nextSeq + 1, ![t].pc = "rlock",
                            ![t].regAtWrite = Registered]
    /\ UNCHANGED <<load, budget, burst, ws, watchers, muWriter, readers, cpc, spc,
                   swept, clock, cons, fault, tx, rd, tables, shadow, cl, boot>>

\* faulty variant, for comparison: a DELETE that always reports a row
RowsAffectedAlways(k) == 1

\* result.RowsAffected() of DELETE FROM table WHERE key = ?
RowsAffected(k) == IF db[k] # NoVal THEN 1 ELSE 0

\* DELETE FROM table WHERE key = ?; notify only if hadOldValue and a row went
TryDeleteExec(t) ==
    /\ Alive
    /\ call[t].pc = "exec"
    /\ call[t].op.type = "Delete"
    /\ BackendWritable
    /\ db' = [db EXCEPT ![call[t].op.key] = NoVal]
    /\ nextSeq' = nextSeq + RowsAffected(call[t].op.key)
    /\ call' = [call EXCEPT
                  ![t].seq = IF RowsAffected(call[t].op.key) > 0 THEN nextSeq + 1 ELSE 0,
                  ![t].regAtWrite = IF call[t].hadOldValue /\ RowsAffected(call[t].op.key) > 0
                                    THEN Registered ELSE {},
                  ![t].pc = IF call[t].hadOldValue /\ RowsAffected(call[t].op.key) > 0
                            THEN "rlock" ELSE "ret",
                  ![t].result = IF call[t].hadOldValue /\ RowsAffected(call[t].op.key) > 0
                                THEN "none" ELSE "ok"]
    /\ UNCHANGED <<load, budget, burst, ws, watchers, muWriter, readers, cpc, spc,
                   swept, clock, cons, fault, tx, rd, tables, shadow, cl, boot>>

\* ExecContext returns an error: the call returns it, nothing is written
ExecFail(t) ==
    /\ Alive
    /\ call[t].pc = "exec"
    /\ call[t].op.type = "Set" => Marshals(call[t].op.value)
    /\ call' = [call EXCEPT ![t].pc = "ret", ![t].result = "err"]
    /\ UNCHANGED <<load, budget, burst, db, nextSeq, ws, watchers, muWriter, readers,
                   cpc, spc, swept, clock, cons, fault, tx, rd, tables, shadow, cl, boot>>

\* the call has returned to its caller
Return(t) ==
    /\ Alive
    /\ call[t].pc = "ret"
    /\ call' = [call EXCEPT ![t] = IdleCall]
    /\ UNCHANGED <<load, budget, burst, db, nextSeq, ws, watchers, muWriter, readers,
                   cpc, spc, swept, clock, cons, fault, tx, rd, tables, shadow, cl, boot>>

(***************************************************************************)
(* watcherRegistry.notify                                                  *)
(***************************************************************************)
\* the event TrySet / TryDelete builds for its call
EventOf(t) ==
    IF call[t].op.type = "Set"
    THEN Event("Set", call[t].op.key, call[t].op.value,
               IF call[t].hadOldValue THEN call[t].oldValue ELSE NoVal, call[t].seq)
    ELSE Event("Delete", call[t].op.key, NoVal, call[t].oldValue, call[t].seq)

\* r.mu.RLock(): waits while a goroutine is inside Lock()
NotifyRLock(t) ==
    /\ Alive
    /\ call[t].pc = "rlock"
    /\ ~muWriter
    /\ readers' = readers \cup {t}
    /\ call' = [call EXCEPT ![t].todo = MapValues(watchers), ![t].pc = "range"]
    /\ UNCHANGED <<load, budget, burst, db, nextSeq, ws, watchers, muWriter, cpc, spc,
                   swept, clock, cons, fault, tx, rd, tables, shadow, cl, boot>>

\* what a read of w.stopped can return: stop() writes the flag outside r.mu, so a
\* read that follows the write may still return the old value
StoppedReads(w) == IF ws[w].stopped THEN {TRUE, FALSE} ELSE {FALSE}

\* the match test of notify: an exact-key watcher compares the renderings, a
\* prefix watcher tests the prefix
Matches(w, k) ==
    IF ws[w].key # None
    THEN Render(ws[w].key) = Render(k)
    ELSE IF ws[w].prefix # None
         THEN HasPrefix(Render(k), ws[w].prefix)
         ELSE FALSE

\* one iteration of "for _, w := range r.watchers" up to the select: the map is
\* visited in any order; a watcher read as stopped, or not matching, is passed over
NotifyNext(t) ==
    /\ Alive
    /\ call[t].pc = "range"
    /\ \E w \in call[t].todo : \E seen \in StoppedReads(w) :
         call' = [call EXCEPT
                    ![t].todo = @ \ {w},
                    ![t].cur = IF ~seen /\ Matches(w, call[t].op.key) THEN w ELSE None,
                    ![t].pc = IF ~seen /\ Matches(w, call[t].op.key)
                              THEN "select" ELSE "range"]
    /\ UNCHANGED <<load, budget, burst, db, nextSeq, ws, watchers, muWriter, readers,
                   cpc, spc, swept, clock, cons, fault, tx, rd, tables, shadow, cl, boot>>

\* faulty variant, for comparison: a send that is ready one event too late
SendReadyOffByOne(w) == ws[w].chClosed \/ Len(ws[w].ch) <= ChanCap

\* w.ch <- event is ready: the buffer has room, or the channel is closed (and the
\* send panics)
SendReady(w) == ws[w].chClosed \/ Len(ws[w].ch) < ChanCap

\* <-w.stopCh is ready: stopCh is closed
StopReady(w) == ws[w].stopCh

\* select, case w.ch <- event
SelectSend(t) ==
    /\ Alive
    /\ call[t].pc = "select"
    /\ SendReady(call[t].cur)
    /\ IF ws[call[t].cur].chClosed
       THEN /\ fault' = "send on closed channel"
            /\ UNCHANGED <<ws, call, tables, shadow, cl, boot>>
       ELSE /\ ws' = [ws EXCEPT ![call[t].cur].ch = Append(@, EventOf(t)),
                                ![call[t].cur].lastSeq = call[t].seq]
            /\ call' = [call EXCEPT ![t].delivered[call[t].cur] = @ + 1,
                                    ![t].cur = None, ![t].pc = "range"]
            /\ UNCHANGED fault
    /\ UNCHANGED <<load, budget, burst, db, nextSeq, watchers, muWriter, readers, cpc,
                   spc, swept, clock, cons, tx, rd, tables, shadow, cl, boot>>

\* select, case <-w.stopCh
SelectStopped(t) ==
    /\ Alive
    /\ call[t].pc = "select"
    /\ StopReady(call[t].cur)
    /\ call' = [call EXCEPT ![t].cur = None, ![t].pc = "range"]
    /\ UNCHANGED <<load, budget, burst, db, nextSeq, ws, watchers, muWriter, readers,
                   cpc, spc, swept, clock, cons, fault, tx, rd, tables, shadow, cl, boot>>

\* the range is over: the deferred r.mu.RUnlock(), and TrySet / TryDelete returns nil
NotifyReturn(t) ==
    /\ Alive
    /\ call[t].pc = "range"
    /\ call[t].todo = {}
    /\ readers' = readers \ {t}
    /\ call' = [call EXCEPT ![t].pc = "ret", ![t].result = "ok"]
    /\ UNCHANGED <<load, budget, burst, db, nextSeq, ws, watchers, muWriter, cpc, spc,
                   swept, clock, cons, fault, tx, rd, tables, shadow, cl, boot>>

(***************************************************************************)
(* Watch and the cancel closure it returns                                 *)
(***************************************************************************)
\* the readings time.Now().UnixNano() can return after the last one: the clock
\* does not go back, and two readings can be equal
ClockReadings == {n \in {clock, clock + 1} : n <= MaxClock}

\* the watcher objects are interchangeable: they are built in a fixed order
NextWatcher == IF ws["s1"].state = "none" THEN "s1" ELSE "s2"

\* Watch(key): builds the watcher (its id from the key and the clock) and calls
\* s.watchers.mu.Lock(), which first shuts out other Lock callers and new readers
WatchLock(w, k, nano) ==
    /\ Alive
    /\ w = NextWatcher
    /\ SubscribePhase
    /\ ws[w].state = "none"
    /\ nano \in ClockReadings
    /\ budget > 0
    /\ budget' = budget - 1
    /\ ~muWriter
    /\ muWriter' = TRUE
    /\ clock' = nano
    /\ ws' = [ws EXCEPT ![w].key = k, ![w].id = WatcherId(k, nano),
                        ![w].state = "locking"]
    /\ UNCHANGED <<load, burst, db, nextSeq, call, watchers, readers, cpc, spc, swept,
                   cons, fault, tx, rd, tables, shadow, cl, boot>>

\* faulty variant, for comparison: a Lock() that does not wait for the readers
LockAcquiredEarly == TRUE

\* r.mu.Lock() returns: no goroutine is between RLock() and RUnlock()
LockAcquired == readers = {}

\* Lock() returns once the readers are gone; s.watchers.watchers[w.id] = w;
\* Unlock(); Watch returns the channel and the cancel closure
WatchRegister(w) ==
    /\ Alive
    /\ ws[w].state = "locking"
    /\ LockAcquired
    /\ watchers' = MapPut(watchers, ws[w].id, w)
    /\ muWriter' = FALSE
    /\ ws' = [ws EXCEPT ![w].state = "live"]
    /\ UNCHANGED <<load, budget, burst, db, nextSeq, call, readers, cpc, spc, swept,
                   clock, cons, fault, tx, rd, tables, shadow, cl, boot>>

\* the id of a prefix watcher: fmt.Sprintf("prefix_%s_%d", prefix, nano)
PrefixWatcherId(p, nano) == <<"prefix", p, nano>>

\* WatchPrefix(prefix): as Watch, for a watcher with a prefix and no key; it is
\* registered by the same three statements (WatchRegister)
WatchPrefixLock(w, p, nano) ==
    /\ Alive
    /\ w = NextWatcher
    /\ ws[w].state = "none"
    /\ nano \in ClockReadings
    /\ budget > 0
    /\ budget' = budget - 1
    /\ ~muWriter
    /\ muWriter' = TRUE
    /\ clock' = nano
    /\ ws' = [ws EXCEPT ![w].key = None, ![w].prefix = p,
                        ![w].id = PrefixWatcherId(p, nano), ![w].state = "locking"]
    /\ UNCHANGED <<load, burst, db, nextSeq, call, watchers, readers, cpc, spc, swept,
                   cons, fault, tx, rd, tables, shadow, cl, boot>>

\* faulty variant, for comparison: stop that sets the flag and leaves stopCh open
StopFlagOnly(stop) ==
    [w \in Subs |-> IF w \in stop THEN [ws[w] EXCEPT !.stopped = TRUE] ELSE ws[w]]

\* watcher.stop for every watcher of stop: stopOnce.Do sets w.stopped and closes
\* w.stopCh, once
Stop(stop) ==
    [w \in Subs |-> IF w \in stop
                    THEN [ws[w] EXCEPT !.stopped = TRUE, !.stopCh = TRUE]
                    ELSE ws[w]]

\* the invocations of one cancel closure are interchangeable
CallerTurn(w, c) == c = "c1" \/ cpc[w]["c1"] # "idle"

\* cancel, first statement: w.stop()
CancelStop(w, c) ==
    /\ Alive
    /\ ws[w].state = "live"
    /\ cpc[w][c] = "idle"
    /\ CallerTurn(w, c)
    /\ TeardownPhase
    /\ budget > 0
    /\ budget' = budget - 1
    /\ ws' = Stop({w})
    /\ cpc' = [cpc EXCEPT ![w][c] = "lock"]
    /\ UNCHANGED <<load, burst, db, nextSeq, call, watchers, muWriter, readers, spc,
                   swept, clock, cons, fault, tx, rd, tables, shadow, cl, boot>>

\* cancel: s.watchers.mu.Lock() is called
CancelLock(w, c) ==
    /\ Alive
    /\ cpc[w][c] = "lock"
    /\ ~muWriter
    /\ muWriter' = TRUE
    /\ cpc' = [cpc EXCEPT ![w][c] = "remove"]
    /\ UNCHANGED <<load, budget, burst, db, nextSeq, call, ws, watchers, readers, spc,
                   swept, clock, cons, fault, tx, rd, tables, shadow, cl, boot>>

\* cancel: Lock() returns once the readers are gone;
\* delete(s.watchers.watchers, w.id); Unlock()
CancelRemove(w, c) ==
    /\ Alive
    /\ cpc[w][c] = "remove"
    /\ LockAcquired
    /\ watchers' = MapDelete(watchers, ws[w].id)
    /\ muWriter' = FALSE
    /\ cpc' = [cpc EXCEPT ![w][c] = "close"]
    /\ UNCHANGED <<load, budget, burst, db, nextSeq, call, ws, readers, spc, swept,
                   clock, cons, fault, tx, rd, tables, shadow, cl, boot>>

\* faulty variant, for comparison: a cancel that leaves the channel open
CloseChanSkipped(w) == ws

\* close(ch) on an open channel
CloseChan(w) == [ws EXCEPT ![w].chClosed = TRUE]

\* cancel, last statement: close(ch), which panics on a closed channel
CancelClose(w, c) ==
    /\ Alive
    /\ cpc[w][c] = "close"
    /\ IF ws[w].chClosed
       THEN /\ fault' = "close of closed channel"
            /\ cpc' = [cpc EXCEPT ![w][c] = "panic"]
            /\ UNCHANGED ws
       ELSE /\ ws' = CloseChan(w)
            /\ cpc' = [cpc EXCEPT ![w][c] = "done"]
            /\ UNCHANGED fault
    /\ UNCHANGED <<load, budget, burst, db, nextSeq, call, watchers, muWriter, readers,
                   spc, swept, clock, cons, tx, rd, tables, shadow, cl, boot>>

(***************************************************************************)
(* StopAllWatchers                                                         *)
(***************************************************************************)
\* s.watchers.mu.Lock() is called
StopAllLock ==
    /\ Alive
    /\ spc = "idle"
    /\ TeardownPhase
    /\ budget > 0
    /\ budget' = budget - 1
    /\ ~muWriter
    /\ muWriter' = TRUE
    /\ spc' = "locked"
    /\ UNCHANGED <<load, burst, db, nextSeq, call, ws, watchers, readers, cpc, swept,
                   clock, cons, fault, tx, rd, tables, shadow, cl, boot>>

\* Lock() returns once the readers are gone; every watcher of the map is stopped,
\* the map is replaced by an empty one; the deferred Unlock()
StopAllRun ==
    /\ Alive
    /\ spc = "locked"
    /\ LockAcquired
    /\ ws' = Stop(MapValues(watchers))
    /\ watchers' = MapReset(watchers)
    /\ muWriter' = FALSE
    /\ spc' = "idle"
    /\ swept' = swept \cup {w \in Subs : ws[w].state = "live"}
    /\ UNCHANGED <<load, budget, burst, db, nextSeq, call, readers, cpc, clock, cons,
                   fault, tx, rd, tables, shadow, cl, boot>>

(***************************************************************************)
(* The consumer of a subscription: for event := range ch                   *)
(***************************************************************************)
\* the consumers of a burst are slow: they receive from a full buffer only
SlowConsumer(w) == load = "burst" => Len(ws[w].ch) = ChanCap \/ ws[w].chClosed

\* a receive takes the oldest buffered event
Recv(w) ==
    /\ Alive
    /\ ws[w].state = "live"
    /\ cons[w] = "ranging"
    /\ ws[w].ch # << >>
    /\ SlowConsumer(w)
    /\ ws' = [ws EXCEPT ![w].ch = Tail(@)]
    /\ UNCHANGED <<load, budget, burst, db, nextSeq, call, watchers, muWriter, readers,
                   cpc, spc, swept, clock, cons, fault, tx, rd, tables, shadow, cl, boot>>

\* a receive from a closed and drained channel ends the range loop
RecvEnd(w) ==
    /\ Alive
    /\ ws[w].state = "live"
    /\ cons[w] = "ranging"
    /\ ws[w].ch = << >>
    /\ ws[w].chClosed
    /\ cons' = [cons EXCEPT ![w] = "ended"]
    /\ UNCHANGED <<load, budget, burst, db, nextSeq, call, ws, watchers, muWriter,
                   readers, cpc, spc, swept, clock, fault, tx, rd,
                   tables, shadow, cl, boot>>

(***************************************************************************)
(* Transaction and the Tx operations (src/unnamed/part_001).  The backend  *)
(* is SQLite in WAL mode: a transaction reads the snapshot its first       *)
(* statement took, its first write takes the one writer lock, and its      *)
(* writes reach the table at COMMIT.                                       *)
(***************************************************************************)
\* the transaction has been called and neither committed nor rolled back
TxActive == tx.pc \in {"open", "end"}

\* the table as the next statement of the transaction sees it
TxView == IF tx.began THEN tx.view ELSE db

\* the first write of a transaction gets the writer lock only if the table has
\* not been written since the snapshot was taken
TxCanWrite == tx.wrote \/ TxView = db

\* INSERT OR REPLACE / DELETE ... WHERE key = ? on the transaction's connection
TxWrite(view, k, v) == [view EXCEPT ![k] = v]

\* faulty variant, for comparison: a Tx operation that delivers like TrySet
TxDeliverAsStore(k, v) ==
    [w \in Subs |->
        IF ws[w].state = "live" /\ Matches(w, k) /\ Len(ws[w].ch) < ChanCap
        THEN [ws[w] EXCEPT !.ch = Append(@, Event("Set", k, v, NoVal, 0))]
        ELSE ws[w]]

\* the watchers' channels after a Tx operation: Tx.Set, Tx.Delete and Tx.Clear
\* return the error of Exec and do not call notify
TxDeliver(k, v) == ws

\* faulty variant, for comparison: a COMMIT that publishes one key only
CommitTableOneKey(table, view) ==
    [k \in Keys |-> IF k = "k1" THEN view[k] ELSE table[k]]

\* the table after sqlTx.Commit()
CommitTable(table, view) == view

\* faulty variant, for comparison: a ROLLBACK that keeps the writes
RolledBackKept(table, view) == view

\* the table after sqlTx.Rollback()
RolledBack(table, view) == table

\* faulty variant, for comparison: a statement outside the transaction that
\* reads the transaction's uncommitted writes
OutsideViewDirty == IF tx.wrote THEN tx.view ELSE db

\* the table as a statement outside the transaction sees it
OutsideView == db

\* Transaction: s.db.BeginTx succeeds and fn is called
TxBegin ==
    /\ Alive
    /\ tx.pc = "idle"
    /\ budget > 0
    /\ budget' = budget - 1
    /\ tx' = [tx EXCEPT !.pc = "open", !.start = db, !.startSeq = nextSeq,
                        !.liveAtBegin = LiveSubs]
    /\ UNCHANGED <<load, burst, db, nextSeq, call, ws, watchers, muWriter, readers, cpc,
                   spc, swept, clock, cons, fault, rd, tables, shadow, cl, boot>>

\* Transaction: s.db.BeginTx fails, "failed to begin transaction" is returned
TxBeginFail ==
    /\ Alive
    /\ tx.pc = "idle"
    /\ budget > 0
    /\ budget' = budget - 1
    /\ tx' = [tx EXCEPT !.pc = "done", !.result = "err", !.start = db,
                        !.startSeq = nextSeq, !.failed = "begin",
                        !.err = <<"failed to begin transaction", "begin error">>]
    /\ UNCHANGED <<load, burst, db, nextSeq, call, ws, watchers, muWriter, readers, cpc,
                   spc, swept, clock, cons, fault, rd, tables, shadow, cl, boot>>

\* fn calls tx.Set(k, v)
TxSet(k, v) ==
    /\ Alive
    /\ tx.pc = "open"
    /\ tx.ops < MaxTxOps
    /\ budget > 0
    /\ budget' = budget - 1
    /\ TxCanWrite
    /\ tx' = [tx EXCEPT !.began = TRUE, !.wrote = TRUE, !.ops = @ + 1,
                        !.view = TxWrite(TxView, k, v), !.last[k] = v]
    /\ ws' = TxDeliver(k, v)
    /\ UNCHANGED <<load, burst, db, nextSeq, call, watchers, muWriter, readers,
                   cpc, spc, swept, clock, cons, fault, rd, tables, shadow, cl, boot>>

\* fn calls tx.Delete(k)
TxDelete(k) ==
    /\ Alive
    /\ tx.pc = "open"
    /\ tx.ops < MaxTxOps
    /\ budget > 0
    /\ budget' = budget - 1
    /\ TxCanWrite
    /\ tx' = [tx EXCEPT !.began = TRUE, !.wrote = TRUE, !.ops = @ + 1,
                        !.view = TxWrite(TxView, k, NoVal), !.last[k] = NoVal]
    /\ ws' = TxDeliver(k, NoVal)
    /\ UNCHANGED <<load, burst, db, nextSeq, call, watchers, muWriter, readers,
                   cpc, spc, swept, clock, cons, fault, rd, tables, shadow, cl, boot>>

\* fn calls tx.Clear(): DELETE FROM table on the transaction's connection
TxClear ==
    /\ Alive
    /\ tx.pc = "open"
    /\ tx.ops < MaxTxOps
    /\ budget > 0
    /\ budget' = budget - 1
    /\ TxCanWrite
    /\ tx' = [tx EXCEPT !.began = TRUE, !.wrote = TRUE, !.ops = @ + 1,
                        !.view = [k \in Keys |-> NoVal],
                        !.last = [k \in Keys |-> NoVal]]
    /\ ws' = ws
    /\ UNCHANGED <<load, burst, db, nextSeq, call, watchers, muWriter, readers,
                   cpc, spc, swept, clock, cons, fault, rd, tables, shadow, cl, boot>>

\* a first write after the table was written since the snapshot: Exec returns
\* "database is locked" and the Tx operation returns it
TxWriteBusy ==
    /\ Alive
    /\ tx.pc = "open"
    /\ tx.ops < MaxTxOps
    /\ ~TxCanWrite
    /\ tx' = [tx EXCEPT !.ops = @ + 1]
    /\ UNCHANGED <<load, budget, burst, db, nextSeq, call, ws, watchers, muWriter,
                   readers, cpc, spc, swept, clock, cons, fault, rd,
                   tables, shadow, cl, boot>>

\* fn calls tx.Get(k): SELECT value FROM table WHERE key = ? on the transaction's
\* connection
TxGet(k) ==
    /\ Alive
    /\ tx.pc = "open"
    /\ tx.ops < MaxTxOps
    /\ budget > 0
    /\ budget' = budget - 1
    /\ tx' = [tx EXCEPT !.began = TRUE, !.ops = @ + 1, !.view = TxView,
                        !.got = TxView[k], !.gotKey = k, !.expect = tx.last[k]]
    /\ UNCHANGED <<load, burst, db, nextSeq, call, ws, watchers, muWriter,
                   readers, cpc, spc, swept, clock, cons, fault, rd,
                   tables, shadow, cl, boot>>

\* fn returns nil (e = FALSE) or an error (e = TRUE)
TxReturn(e) ==
    /\ Alive
    /\ tx.pc = "open"
    /\ tx' = [tx EXCEPT !.pc = "end", !.fnErr = e]
    /\ UNCHANGED <<load, budget, burst, db, nextSeq, call, ws, watchers, muWriter,
                   readers, cpc, spc, swept, clock, cons, fault, rd,
                   tables, shadow, cl, boot>>

\* err == nil: sqlTx.Commit() succeeds, Transaction returns nil
TxCommit ==
    /\ Alive
    /\ tx.pc = "end"
    /\ ~tx.fnErr
    /\ db' = IF tx.wrote THEN CommitTable(db, tx.view) ELSE db
    /\ tx' = [tx EXCEPT !.pc = "done", !.wrote = FALSE, !.result = "ok"]
    /\ UNCHANGED <<load, budget, burst, nextSeq, call, ws, watchers, muWriter, readers,
                   cpc, spc, swept, clock, cons, fault, rd, tables, shadow, cl, boot>>

\* err == nil: sqlTx.Commit() fails, "commit failed" is returned and the backend
\* transaction is rolled back
TxCommitFail ==
    /\ Alive
    /\ tx.pc = "end"
    /\ ~tx.fnErr
    /\ db' = RolledBack(db, tx.view)
    /\ tx' = [tx EXCEPT !.pc = "done", !.wrote = FALSE, !.result = "err",
                        !.failed = "commit", !.err = <<"commit failed", "commit error">>]
    /\ UNCHANGED <<load, budget, burst, nextSeq, call, ws, watchers, muWriter, readers,
                   cpc, spc, swept, clock, cons, fault, rd, tables, shadow, cl, boot>>

\* err != nil: sqlTx.Rollback() succeeds; Transaction returns fn's error
TxRollback ==
    /\ Alive
    /\ tx.pc = "end"
    /\ tx.fnErr
    /\ db' = RolledBack(db, tx.view)
    /\ tx' = [tx EXCEPT !.pc = "done", !.wrote = FALSE, !.result = "err",
                        !.err = <<"fn error">>]
    /\ UNCHANGED <<load, budget, burst, nextSeq, call, ws, watchers, muWriter, readers,
                   cpc, spc, swept, clock, cons, fault, rd, tables, shadow, cl, boot>>

\* faulty variant, for comparison: a rollback failure that hides fn's error
RollbackFailedAlone(rbErr, err) == <<"rollback failed", rbErr>>

\* fmt.Errorf("rollback failed: %v (original error: %w)", rbErr, err)
RollbackFailed(rbErr, err) == <<"rollback failed", rbErr>> \o err

\* err != nil: sqlTx.Rollback() fails (the connection is lost, or the context of
\* the transaction has ended: the backend drops the transaction either way);
\* Transaction returns an error made of the rollback's error and fn's
TxRollbackFail ==
    /\ Alive
    /\ tx.pc = "end"
    /\ tx.fnErr
    /\ db' = RolledBack(db, tx.view)
    /\ tx' = [tx EXCEPT !.pc = "done", !.wrote = FALSE, !.result = "err",
                        !.failed = "rollback",
                        !.err = RollbackFailed("rollback error", <<"fn error">>)]
    /\ UNCHANGED <<load, budget, burst, nextSeq, call, ws, watchers, muWriter, readers,
                   cpc, spc, swept, clock, cons, fault, rd, tables, shadow, cl, boot>>

(***************************************************************************)
(* TryGet and TryClear, called by a goroutine of its own                   *)
(***************************************************************************)
\* TryGet(k): SELECT value FROM table WHERE key = ?
TryGet(k) ==
    /\ Alive
    /\ budget > 0
    /\ budget' = budget - 1
    /\ rd' = [rd EXCEPT !.op = "Get", !.n = @ + 1, !.key = k, !.got = OutsideView[k],
                        !.pre = IF TxActive /\ nextSeq = tx.startSeq
                                THEN tx.start[k] ELSE Unwritten,
                        !.txLast = IF TxActive THEN tx.last[k] ELSE Unwritten]
    /\ UNCHANGED <<load, burst, db, nextSeq, call, ws, watchers, muWriter, readers, cpc,
                   spc, swept, clock, cons, fault, tx, tables, shadow, cl, boot>>

\* faulty variant, for comparison: a Clear that spares a key
ClearedTableButOne(table) == [k \in Keys |-> IF k = "k1" THEN NoVal ELSE table[k]]

\* the table after DELETE FROM table
ClearedTable(table) == [k \in Keys |-> NoVal]

\* TryClear: DELETE FROM table succeeds; nil is returned, no watcher is notified
TryClear ==
    /\ Alive
    /\ budget > 0
    /\ budget' = budget - 1
    /\ BackendWritable
    /\ db' = ClearedTable(db)
    /\ nextSeq' = nextSeq + 1
    /\ rd' = [rd EXCEPT !.op = "Clear", !.n = @ + 1,
                        !.removed = {k \in Keys : db[k] # NoVal}]
    /\ UNCHANGED <<load, burst, call, ws, watchers, muWriter, readers, cpc, spc, swept,
                   clock, cons, fault, tx, tables, shadow, cl, boot>>

\* TryClear: ExecContext fails and its error is returned
TryClearFail ==
    /\ Alive
    /\ budget > 0
    /\ budget' = budget - 1
    /\ rd' = [rd EXCEPT !.op = "ClearErr", !.n = @ + 1]
    /\ UNCHANGED <<load, burst, db, nextSeq, call, ws, watchers, muWriter, readers, cpc,
                   spc, swept, clock, cons, fault, tx, tables, shadow, cl, boot>>

(***************************************************************************)
(* SetNX and GetOr                                                         *)
(***************************************************************************)
\* faulty variant, for comparison: a SetNX that calls Set whatever Has answered
NXBranchAlwaysSet(present) == "nxset"

\* if s.Has(key) { return s.Get(key) }; return s.Set(key, value)
NXBranch(present) == IF present THEN "nxget" ELSE "nxset"

\* SetNX(key, value) is called: s.Has(key), SELECT 1 FROM table WHERE key = ?
SetNXHas(t, k, v) ==
    /\ Alive
    /\ t \notin LoadWriters(load)
    /\ call[t].pc = "idle"
    /\ budget > 0
    /\ budget' = budget - 1
    /\ call' = [call EXCEPT ![t] =
                  [IdleCall EXCEPT
                     !.pc = NXBranch(db[k] # NoVal), !.op = SetOp(k, v),
                     !.nx = [NoNX EXCEPT !.on = TRUE, !.had = (db[k] # NoVal),
                                         !.val = db[k], !.seq = nextSeq]]]
    /\ UNCHANGED <<load, burst, db, nextSeq, ws, watchers, muWriter, readers, cpc, spc,
                   swept, clock, cons, fault, tx, rd, tables, shadow, cl, boot>>

\* SetNX: return s.Get(key); Get panics with sql.ErrNoRows when the row is gone
SetNXGet(t) ==
    /\ Alive
    /\ call[t].pc = "nxget"
    /\ IF db[call[t].op.key] # NoVal
       THEN /\ call' = [call EXCEPT ![t].pc = "ret", ![t].result = "ok",
                                    ![t].nx.out = db[call[t].op.key],
                                    ![t].nx.clean = (nextSeq = call[t].nx.seq)]
            /\ UNCHANGED fault
       ELSE /\ call' = [call EXCEPT ![t].pc = "panic",
                                    ![t].nx.clean = (nextSeq = call[t].nx.seq)]
            /\ fault' = "sql: no rows in result set"
    /\ UNCHANGED <<load, budget, burst, db, nextSeq, ws, watchers, muWriter, readers,
                   cpc, spc, swept, clock, cons, tx, rd, tables, shadow, cl, boot>>

\* SetNX: return s.Set(key, value); TrySet starts with getOldValue and returns value
SetNXSet(t) ==
    /\ Alive
    /\ call[t].pc = "nxset"
    /\ call' = [call EXCEPT ![t].pc = "exec",
                            ![t].oldValue = getOldValue(call[t].op.key)[1],
                            ![t].hadOldValue = getOldValue(call[t].op.key)[2],
                            ![t].liveAtCall = LiveSubs,
                            ![t].goneAtCall = GoneSubs,
                            ![t].nx.out = call[t].op.value,
                            ![t].nx.clean = (nextSeq = call[t].nx.seq)]
    /\ UNCHANGED <<load, budget, burst, db, nextSeq, ws, watchers, muWriter, readers,
                   cpc, spc, swept, clock, cons, fault, tx, rd, tables, shadow, cl, boot>>

\* faulty variant, for comparison: a GetOr that stores the default it returns
AfterGetOrStored(table, k, d) == IF table[k] = NoVal THEN [table EXCEPT ![k] = d] ELSE table

\* the table after GetOr(k, d): GetOr executes the SELECT of TryGet and nothing else
AfterGetOr(table, k, d) == table

\* GetOr(key, defaultValue): TryGet; sql.ErrNoRows gives defaultValue
GetOr(k, d) ==
    /\ Alive
    /\ budget > 0
    /\ budget' = budget - 1
    /\ rd' = [rd EXCEPT !.op = "GetOr", !.n = @ + 1, !.key = k, !.dflt = d,
                        !.got = IF OutsideView[k] = NoVal THEN d ELSE OutsideView[k]]
    /\ db' = AfterGetOr(db, k, d)
    /\ UNCHANGED <<load, burst, nextSeq, call, ws, watchers, muWriter, readers, cpc,
                   spc, swept, clock, cons, fault, tx, tables, shadow, cl, boot>>

(***************************************************************************)
(* A store at the level of rows: the statements TrySet, TryDelete, TryGet, *)
(* TryHas, TryClear and the iterators execute on the table of encoded      *)
(* rows.  The stores of this part have no subscription, so notify finds no *)
(* watcher and the old value TrySet and TryDelete read is not used.        *)
(***************************************************************************)
\* the goroutines of a workload, and the keys each of them uses
LoadClients(l) == IF l = "disjoint" THEN Writers ELSE {"g1"}
ClientKeys(l, t) ==
    IF l = "disjoint" THEN (IF t = "g1" THEN {1, 10} ELSE {2}) ELSE IntKeys

\* a call is made: the goroutine is idle and the run has calls left
CallOn(t, s) ==
    /\ Alive
    /\ t \in LoadClients(load)
    /\ s \in LoadStores(load)
    /\ cl[t].pc = "idle"
    /\ budget > 0
    /\ budget' = budget - 1

\* QueryRowContext(...).Scan: the row found, or sql.ErrNoRows
Scan(found) == IF found = {} THEN "ErrNoRows" ELSE "ok"

\* TrySet(key, value) is called: getOldValue, then the key and value are marshalled
KVTrySet(t, s, k, v) ==
    /\ CallOn(t, s)
    /\ k \in ClientKeys(load, t)
    /\ cl' = [cl EXCEPT ![t] = [IdleClient EXCEPT !.pc = "exec", !.store = s,
                                  !.fn = "Set", !.key = k, !.value = v]]
    /\ UNCHANGED <<load, burst, db, nextSeq, call, ws, watchers, muWriter, readers, cpc,
                   spc, swept, clock, cons, fault, tx, rd, boot, tables, shadow>>

\* TrySet: INSERT OR REPLACE INTO table (key, value) VALUES (?, ?); nil is returned
KVTrySetExec(t) ==
    /\ Alive
    /\ cl[t].pc = "exec"
    /\ cl[t].fn = "Set"
    /\ LET p == TableOf(cl[t].store)
           rows == InsertOrReplace(tables[p], FormatInt(cl[t].key),
                                   MarshalString(cl[t].value))
       IN  /\ tables' = [tables EXCEPT ![p] = rows]
           /\ cl' = [cl EXCEPT ![t].pc = "idle", ![t].result = "ok",
                               ![t].want = shadow[cl[t].store][cl[t].key],
                               ![t].changed = (rows # tables[p])]
    /\ shadow' = [shadow EXCEPT ![cl[t].store][cl[t].key] = cl[t].value]
    /\ UNCHANGED <<load, burst, db, nextSeq, call, ws, watchers, muWriter, readers, cpc,
                   spc, swept, clock, cons, fault, tx, rd, boot, budget>>

\* TryDelete(key) is called: getOldValue, then the key is marshalled
KVTryDelete(t, s, k) ==
    /\ CallOn(t, s)
    /\ k \in ClientKeys(load, t)
    /\ cl' = [cl EXCEPT ![t] = [IdleClient EXCEPT !.pc = "exec", !.store = s,
                                  !.fn = "Delete", !.key = k]]
    /\ UNCHANGED <<load, burst, db, nextSeq, call, ws, watchers, muWriter, readers, cpc,
                   spc, swept, clock, cons, fault, tx, rd, boot, tables, shadow>>

\* TryDelete: DELETE FROM table WHERE key = ?; nil is returned
KVTryDeleteExec(t) ==
    /\ Alive
    /\ cl[t].pc = "exec"
    /\ cl[t].fn = "Delete"
    /\ LET p == TableOf(cl[t].store)
           rows == DeleteWhereKey(tables[p], FormatInt(cl[t].key))
       IN  /\ tables' = [tables EXCEPT ![p] = rows]
           /\ cl' = [cl EXCEPT ![t].pc = "idle", ![t].result = "ok",
                               ![t].want = shadow[cl[t].store][cl[t].key],
                               ![t].changed = (rows # tables[p])]
    /\ shadow' = [shadow EXCEPT ![cl[t].store][cl[t].key] = NoVal]
    /\ UNCHANGED <<load, burst, db, nextSeq, call, ws, watchers, muWriter, readers, cpc,
                   spc, swept, clock, cons, fault, tx, rd, boot, budget>>

\* TryGet(key): SELECT value FROM table WHERE key = ?, Scan, json.Unmarshal
KVTryGet(t, s, k) ==
    /\ CallOn(t, s)
    /\ k \in ClientKeys(load, t)
    /\ LET found == SelectWhereKey(tables[TableOf(s)], FormatInt(k))
       IN  cl' = [cl EXCEPT ![t] =
                    [IdleClient EXCEPT
                       !.store = s, !.fn = "Get", !.key = k,
                       !.result = Scan(found),
                       !.got = IF found = {} THEN NoVal
                               ELSE UnmarshalString((CHOOSE r \in found : TRUE).value),
                       !.want = shadow[s][k]]]
    /\ UNCHANGED <<load, burst, db, nextSeq, call, ws, watchers, muWriter, readers, cpc,
                   spc, swept, clock, cons, fault, tx, rd, boot, tables, shadow>>

\* TryHas(key): SELECT 1 FROM table WHERE key = ? LIMIT 1; ErrNoRows is "false"
KVTryHas(t, s, k) ==
    /\ CallOn(t, s)
    /\ k \in ClientKeys(load, t)
    /\ LET found == SelectWhereKey(tables[TableOf(s)], FormatInt(k))
       IN  cl' = [cl EXCEPT ![t] =
                    [IdleClient EXCEPT !.store = s, !.fn = "Has", !.key = k,
                                       !.result = "ok", !.has = (Scan(found) = "ok"),
                                       !.want = shadow[s][k]]]
    /\ UNCHANGED <<load, burst, db, nextSeq, call, ws, watchers, muWriter, readers, cpc,
                   spc, swept, clock, cons, fault, tx, rd, boot, tables, shadow>>

\* TryClear: DELETE FROM table
KVTryClear(t, s) ==
    /\ CallOn(t, s)
    /\ tables' = [tables EXCEPT ![TableOf(s)] = {}]
    /\ shadow' = [shadow EXCEPT ![s] = [k \in IntKeys |-> NoVal]]
    /\ cl' = [cl EXCEPT ![t] = [IdleClient EXCEPT !.store = s, !.fn = "Clear",
                                  !.result = "ok",
                                  !.changed = (tables[TableOf(s)] # {})]]
    /\ UNCHANGED <<load, burst, db, nextSeq, call, ws, watchers, muWriter, readers, cpc,
                   spc, swept, clock, cons, fault, tx, rd, boot>>

\* the iterating functions; those of Forward read ORDER BY key, the others
\* ORDER BY key DESC; the callback of those of Yielding returns a bool
Forward == {"All", "Iter", "TryForEach"}
Yielding == {"All", "Backward", "Iter", "IterReverse"}
Iterators == Forward \cup Yielding \cup {"TryForEachReverse"}

\* an iterating function is called: QueryContext opens a cursor on the rows of
\* the table as they are now, in the order of the statement
KVQuery(t, s, fn) ==
    /\ CallOn(t, s)
    /\ fn \in Iterators
    /\ LET rows == tables[TableOf(s)]
       IN  cl' = [cl EXCEPT ![t] =
                    [IdleClient EXCEPT
                       !.pc = "rows", !.store = s, !.fn = fn, !.cursor = "open",
                       !.pending = IF fn \in Forward THEN OrderByKey(rows)
                                   ELSE OrderByKeyDesc(rows),
                       !.snapshot = rows]]
    /\ UNCHANGED <<load, burst, db, nextSeq, call, ws, watchers, muWriter, readers, cpc,
                   spc, swept, clock, cons, fault, tx, rd, boot, tables, shadow>>

\* faulty variant, for comparison: a return that leaves the cursor open
CursorLeftOpen(c) == c

\* defer rows.Close()
CloseRows(c) == "closed"

\* rows.Next() is true: Scan, json.Unmarshal of key and value, and the callback is
\* invoked; when it returns false (more = FALSE) the function returns
KVYield(t, more) ==
    /\ Alive
    /\ cl[t].pc = "rows"
    /\ cl[t].pending # << >>
    /\ more \/ cl[t].fn \in Yielding
    /\ cl' = [cl EXCEPT
                ![t].visited = Append(@, ParseInt(Head(cl[t].pending).key)),
                ![t].pending = Tail(@),
                ![t].stopped = ~more,
                ![t].pc = IF more THEN "rows" ELSE "idle",
                ![t].result = IF more THEN "none" ELSE "ok",
                ![t].cursor = IF more THEN @ ELSE CloseRows(@)]
    /\ UNCHANGED <<load, burst, db, nextSeq, call, ws, watchers, muWriter, readers, cpc,
                   spc, swept, clock, cons, fault, tx, rd, boot, budget, tables, shadow>>

\* what an iterating function does with the error of QueryContext: the functions
\* with a callback return it, the range functions return
QueryFailed(fn) == IF fn \in Yielding THEN "ok" ELSE "err"

\* an iterating function is called and QueryContext returns an error
KVQueryFail(t, s, fn) ==
    /\ CallOn(t, s)
    /\ fn \in Iterators
    /\ cl' = [cl EXCEPT ![t] =
                 [IdleClient EXCEPT !.store = s, !.fn = fn, !.failed = TRUE,
                                    !.result = QueryFailed(fn)]]
    /\ UNCHANGED <<load, burst, db, nextSeq, call, ws, watchers, muWriter, readers, cpc,
                   spc, swept, clock, cons, fault, tx, rd, boot, tables, shadow>>

\* what an iterating function does with an error of Scan or json.Unmarshal:
\* TryForEach and TryForEachReverse return it, All, Backward and Iter panic,
\* IterReverse returns
ScanFailed(fn) ==
    IF fn \in {"TryForEach", "TryForEachReverse"} THEN "err"
    ELSE IF fn = "IterReverse" THEN "ok" ELSE "panic"

\* rows.Next() is true and Scan fails, or the key or the value read is not the
\* encoding of a T1 or a T2
KVScanFail(t) ==
    /\ Alive
    /\ cl[t].pc = "rows"
    /\ cl[t].pending # << >>
    /\ cl' = [cl EXCEPT ![t].pc = "idle", ![t].failed = TRUE,
                        ![t].result = ScanFailed(cl[t].fn),
                        ![t].cursor = CloseRows(@)]
    /\ fault' = IF ScanFailed(cl[t].fn) = "panic" THEN "panic in iteration" ELSE fault
    /\ UNCHANGED <<load, burst, db, nextSeq, call, ws, watchers, muWriter, readers, cpc,
                   spc, swept, clock, cons, budget, tx, rd, boot, tables, shadow>>

\* rows.Next() is false: the function returns (TryForEach returns rows.Err())
KVRowsEnd(t) ==
    /\ Alive
    /\ cl[t].pc = "rows"
    /\ cl[t].pending = << >>
    /\ cl' = [cl EXCEPT ![t].pc = "idle", ![t].result = "ok",
                        ![t].cursor = CloseRows(@)]
    /\ UNCHANGED <<load, burst, db, nextSeq, call, ws, watchers, muWriter, readers, cpc,
                   spc, swept, clock, cons, fault, tx, rd, boot, budget, tables, shadow>>

(***************************************************************************)
(* New and getSharedDB: the shared handle                                  *)
(***************************************************************************)
\* the pragmas getSharedDB executes on the handle, in order
Pragmas == <<"journal_mode=WAL", "synchronous=NORMAL", "busy_timeout=10000",
             "cache_size=-32000">>

\* faulty variant, for comparison: a Once that runs its function again once the
\* function has returned
OnceRunsAgain(o) == o # "running"

\* dbOnce.Do(f) runs f: no call of Do has started before
OnceRuns(o) == o = "fresh"

\* New(name) is called: getSharedDB declares err and calls dbOnce.Do
NewCall(t) ==
    /\ Alive
    /\ boot.new[t].pc = "idle"
    /\ budget > 0
    /\ budget' = budget - 1
    /\ boot' = [boot EXCEPT !.new[t] = [IdleNew EXCEPT !.pc = "once"]]
    /\ UNCHANGED <<load, burst, db, nextSeq, call, ws, watchers, muWriter, readers, cpc,
                   spc, swept, clock, cons, fault, tx, rd, tables, shadow, cl>>

\* dbOnce.Do: the first call runs the function, a call made while it runs waits
\* for it to return, a later call returns at once; getSharedDB then returns
\* sharedDB and its own err
OnceDo(t) ==
    /\ Alive
    /\ boot.new[t].pc = "once"
    /\ boot.once # "running"
    /\ IF OnceRuns(boot.once)
       THEN boot' = [boot EXCEPT !.once = "running", !.runs = @ + 1,
                                 !.new[t].pc = "mkdir", !.new[t].first = TRUE]
       ELSE boot' = [boot EXCEPT !.new[t].pc = "got", !.new[t].db = boot.sharedDB]
    /\ UNCHANGED <<load, burst, db, nextSeq, call, ws, watchers, muWriter, readers, cpc,
                   spc, swept, clock, cons, fault, tx, rd, tables, shadow, cl, budget>>

\* os.MkdirAll(dbDir, 0755); on an error err is set and the function returns
InitMkdir(t, ok) ==
    /\ Alive
    /\ boot.new[t].pc = "mkdir"
    /\ IF ok
       THEN boot' = [boot EXCEPT !.new[t].pc = "open"]
       ELSE boot' = [boot EXCEPT !.once = "done", !.new[t].pc = "got",
                                 !.new[t].err = "mkdir", !.new[t].db = boot.sharedDB]
    /\ UNCHANGED <<load, burst, db, nextSeq, call, ws, watchers, muWriter, readers, cpc,
                   spc, swept, clock, cons, fault, tx, rd, tables, shadow, cl, budget>>

\* sharedDB, err = sql.Open(DRIVER, connStr)
InitOpen(t, ok) ==
    /\ Alive
    /\ boot.new[t].pc = "open"
    /\ IF ok
       THEN boot' = [boot EXCEPT !.sharedDB = boot.opens + 1, !.opens = @ + 1,
                                 !.tuned = 0, !.pooled = FALSE,
                                 !.new[t].pc = "pragma"]
       ELSE boot' = [boot EXCEPT !.sharedDB = 0, !.once = "done",
                                 !.new[t].pc = "got", !.new[t].err = "open",
                                 !.new[t].db = 0]
    /\ UNCHANGED <<load, burst, db, nextSeq, call, ws, watchers, muWriter, readers, cpc,
                   spc, swept, clock, cons, fault, tx, rd, tables, shadow, cl, budget>>

\* sharedDB.Exec(pragma) for the next pragma; on an error err is set and the
\* function returns
InitPragma(t, ok) ==
    /\ Alive
    /\ boot.new[t].pc = "pragma"
    /\ boot.tuned < Len(Pragmas)
    /\ IF ok
       THEN boot' = [boot EXCEPT !.tuned = @ + 1]
       ELSE boot' = [boot EXCEPT !.once = "done", !.new[t].pc = "got",
                                 !.new[t].err = Pragmas[boot.tuned + 1],
                                 !.new[t].db = boot.sharedDB]
    /\ UNCHANGED <<load, burst, db, nextSeq, call, ws, watchers, muWriter, readers, cpc,
                   spc, swept, clock, cons, fault, tx, rd, tables, shadow, cl, budget>>

\* SetMaxOpenConns, SetMaxIdleConns, SetConnMaxLifetime; the function returns
InitPool(t) ==
    /\ Alive
    /\ boot.new[t].pc = "pragma"
    /\ boot.tuned = Len(Pragmas)
    /\ boot' = [boot EXCEPT !.pooled = TRUE, !.once = "done", !.new[t].pc = "got",
                            !.new[t].db = boot.sharedDB]
    /\ UNCHANGED <<load, burst, db, nextSeq, call, ws, watchers, muWriter, readers, cpc,
                   spc, swept, clock, cons, fault, tx, rd, tables, shadow, cl, budget>>

\* New: panic(err) if getSharedDB returned an error; else the store is built and
\* CREATE TABLE IF NOT EXISTS is executed on its handle: a nil handle panics, a
\* failed statement panics, otherwise the store is returned
NewCreate(t, ok) ==
    /\ Alive
    /\ boot.new[t].pc = "got"
    /\ boot' = [boot EXCEPT
                  !.new[t].pc = "idle",
                  !.new[t].result = IF boot.new[t].err = None /\ boot.new[t].db # 0 /\ ok
                                    THEN "store" ELSE "panic"]
    /\ UNCHANGED <<load, burst, db, nextSeq, call, ws, watchers, muWriter, readers, cpc,
                   spc, swept, clock, cons, fault, tx, rd, tables, shadow, cl, budget>>

(***************************************************************************)
(* The specification                                                       *)
(***************************************************************************)
Next ==
    \/ \E t \in Writers : \E o \in LoadOps(load) : Begin(t, o)
    \/ \E t \in Writers : TrySetExec(t)
    \/ \E t \in Writers : TryDeleteExec(t)
    \/ \E t \in Writers : ExecFail(t)
    \/ \E t \in Writers : Return(t)
    \/ \E t \in Writers : NotifyRLock(t)
    \/ \E t \in Writers : NotifyNext(t)
    \/ \E t \in Writers : SelectSend(t)
    \/ \E t \in Writers : SelectStopped(t)
    \/ \E t \in Writers : NotifyReturn(t)
    \/ \E w \in Subs : \E k \in Keys : \E nano \in 0..MaxClock : WatchLock(w, k, nano)
    \/ \E w \in Subs : WatchRegister(w)
    \/ \E w \in Subs : \E c \in Callers : CancelStop(w, c)
    \/ \E w \in Subs : \E c \in Callers : CancelLock(w, c)
    \/ \E w \in Subs : \E c \in Callers : CancelRemove(w, c)
    \/ \E w \in Subs : \E c \in Callers : CancelClose(w, c)
    \/ StopAllLock
    \/ StopAllRun
    \/ \E w \in Subs : Recv(w)
    \/ \E w \in Subs : RecvEnd(w)

Spec == Init /\ [][Next]_vars

\* a store with one writer, subscriptions, a reader and a transaction
InitTx == load = "tx" /\ InitStore

NextTx ==
    \/ \E t \in Writers : \E o \in LoadOps(load) : Begin(t, o)
    \/ \E t \in Writers : TrySetExec(t)
    \/ \E t \in Writers : TryDeleteExec(t)
    \/ \E t \in Writers : ExecFail(t)
    \/ \E t \in Writers : Return(t)
    \/ \E t \in Writers : NotifyRLock(t)
    \/ \E t \in Writers : NotifyNext(t)
    \/ \E t \in Writers : SelectSend(t)
    \/ \E t \in Writers : NotifyReturn(t)
    \/ \E w \in Subs : \E k \in Keys : \E nano \in 0..MaxClock : WatchLock(w, k, nano)
    \/ \E w \in Subs : WatchRegister(w)
    \/ \E w \in Subs : Recv(w)
    \/ TxBegin
    \/ TxBeginFail
    \/ \E k \in Keys : \E v \in Vals : TxSet(k, v)
    \/ \E k \in Keys : TxDelete(k)
    \/ TxClear
    \/ TxWriteBusy
    \/ \E k \in Keys : TxGet(k)
    \/ \E e \in BOOLEAN : TxReturn(e)
    \/ TxCommit
    \/ TxCommitFail
    \/ TxRollback
    \/ TxRollbackFail
    \/ \E k \in Keys : TryGet(k)
    \/ TryClear
    \/ TryClearFail

SpecTx == InitTx /\ [][NextTx]_vars

\* a store with one writer and exact-key and prefix subscriptions
\* one goroutine whose Sets and Deletes may fail, next to two subscriptions
InitFail == load = "fail" /\ InitStore

NextFail ==
    \/ \E t \in Writers : \E o \in LoadOps(load) : Begin(t, o)
    \/ \E t \in Writers : MarshalFail(t)
    \/ \E t \in Writers : TrySetExec(t)
    \/ \E t \in Writers : TryDeleteExec(t)
    \/ \E t \in Writers : ExecFail(t)
    \/ \E t \in Writers : Return(t)
    \/ \E t \in Writers : NotifyRLock(t)
    \/ \E t \in Writers : NotifyNext(t)
    \/ \E t \in Writers : SelectSend(t)
    \/ \E t \in Writers : NotifyReturn(t)
    \/ \E w \in Subs : \E k \in Keys : \E nano \in 0..MaxClock : WatchLock(w, k, nano)
    \/ \E w \in Subs : WatchRegister(w)
    \/ \E w \in Subs : Recv(w)

SpecFail == InitFail /\ [][NextFail]_vars

\* one goroutine that writes while subscriptions are being registered
InitLate == load = "late" /\ InitStore

NextLate ==
    \/ \E t \in Writers : \E o \in LoadOps(load) : Begin(t, o)
    \/ \E t \in Writers : TrySetExec(t)
    \/ \E t \in Writers : TryDeleteExec(t)
    \/ \E t \in Writers : Return(t)
    \/ \E t \in Writers : NotifyRLock(t)
    \/ \E t \in Writers : NotifyNext(t)
    \/ \E t \in Writers : SelectSend(t)
    \/ \E t \in Writers : NotifyReturn(t)
    \/ \E w \in Subs : \E k \in Keys : \E nano \in 0..MaxClock : WatchLock(w, k, nano)
    \/ \E w \in Subs : WatchRegister(w)
    \/ \E w \in Subs : Recv(w)

SpecLate == InitLate /\ [][NextLate]_vars

InitPrefix == load = "prefix" /\ InitStore

NextPrefix ==
    \/ \E t \in Writers : \E o \in LoadOps(load) : Begin(t, o)
    \/ \E t \in Writers : TrySetExec(t)
    \/ \E t \in Writers : TryDeleteExec(t)
    \/ \E t \in Writers : Return(t)
    \/ \E t \in Writers : NotifyRLock(t)
    \/ \E t \in Writers : NotifyNext(t)
    \/ \E t \in Writers : SelectSend(t)
    \/ \E t \in Writers : NotifyReturn(t)
    \/ \E w \in Subs : \E k \in Keys : \E nano \in 0..MaxClock : WatchLock(w, k, nano)
    \/ \E w \in Subs : \E p \in Prefixes : \E nano \in 0..MaxClock :
          WatchPrefixLock(w, p, nano)
    \/ \E w \in Subs : WatchRegister(w)
    \/ \E w \in Subs : Recv(w)

SpecPrefix == InitPrefix /\ [][NextPrefix]_vars

\* one goroutine calls SetNX, another TrySet and TryDelete, a third GetOr, on a
\* store with subscriptions
InitNX == load = "nx" /\ InitStore

NextNX ==
    \/ \E t \in Writers : \E o \in LoadOps(load) : Begin(t, o)
    \/ \E t \in Writers : TrySetExec(t)
    \/ \E t \in Writers : TryDeleteExec(t)
    \/ \E t \in Writers : Return(t)
    \/ \E t \in Writers : NotifyRLock(t)
    \/ \E t \in Writers : NotifyNext(t)
    \/ \E t \in Writers : SelectSend(t)
    \/ \E t \in Writers : NotifyReturn(t)
    \/ \E w \in Subs : \E k \in Keys : \E nano \in 0..MaxClock : WatchLock(w, k, nano)
    \/ \E w \in Subs : WatchRegister(w)
    \/ \E w \in Subs : Recv(w)
    \/ \E t \in Writers : \E k \in Keys : SetNXHas(t, k, "v1")
    \/ \E t \in Writers : SetNXGet(t)
    \/ \E t \in Writers : SetNXSet(t)
    \/ \E k \in Keys : \E d \in Vals : GetOr(k, d)

SpecNX == InitNX /\ [][NextNX]_vars

\* goroutines call New in a process that has not made the shared handle
InitBoot == load = "boot" /\ InitStore

NextBoot ==
    \/ \E t \in Writers : NewCall(t)
    \/ \E t \in Writers : OnceDo(t)
    \/ \E t \in Writers : \E ok \in BOOLEAN : InitMkdir(t, ok)
    \/ \E t \in Writers : \E ok \in BOOLEAN : InitOpen(t, ok)
    \/ \E t \in Writers : \E ok \in BOOLEAN : InitPragma(t, ok)
    \/ \E t \in Writers : InitPool(t)
    \/ \E t \in Writers : \E ok \in BOOLEAN : NewCreate(t, ok)

SpecBoot == InitBoot /\ [][NextBoot]_vars

\* one goroutine calls every function of one store of rows
InitRows == load = "rows" /\ InitStore

NextRows ==
    \/ \E t \in Writers : \E s \in StoreNames : \E k \in IntKeys : \E v \in Vals :
          KVTrySet(t, s, k, v)
    \/ \E t \in Writers : KVTrySetExec(t)
    \/ \E t \in Writers : \E s \in StoreNames : \E k \in IntKeys : KVTryDelete(t, s, k)
    \/ \E t \in Writers : KVTryDeleteExec(t)
    \/ \E t \in Writers : \E s \in StoreNames : \E k \in IntKeys : KVTryGet(t, s, k)
    \/ \E t \in Writers : \E s \in StoreNames : \E k \in IntKeys : KVTryHas(t, s, k)
    \/ \E t \in Writers : \E s \in StoreNames : KVTryClear(t, s)
    \/ \E t \in Writers : \E s \in StoreNames : \E fn \in Iterators : KVQuery(t, s, fn)
    \/ \E t \in Writers : \E more \in BOOLEAN : KVYield(t, more)
    \/ \E t \in Writers : KVRowsEnd(t)

SpecRows == InitRows /\ [][NextRows]_vars

\* two goroutines call TrySet on keys of their own and TryGet on one store
\* one goroutine that fills a table and iterates over it; queries, scans and
\* decodings may fail
InitIter == load = "iter" /\ InitStore

NextIter ==
    \/ \E t \in Writers : \E s \in StoreNames : \E k \in IntKeys : \E v \in Vals :
          KVTrySet(t, s, k, v)
    \/ \E t \in Writers : KVTrySetExec(t)
    \/ \E t \in Writers : \E s \in StoreNames : \E fn \in Iterators : KVQuery(t, s, fn)
    \/ \E t \in Writers : \E s \in StoreNames : \E fn \in Iterators :
          KVQueryFail(t, s, fn)
    \/ \E t \in Writers : \E more \in BOOLEAN : KVYield(t, more)
    \/ \E t \in Writers : KVScanFail(t)
    \/ \E t \in Writers : KVRowsEnd(t)

SpecIter == InitIter /\ [][NextIter]_vars

InitDisjoint == load = "disjoint" /\ InitStore

NextDisjoint ==
    \/ \E t \in Writers : \E s \in StoreNames : \E k \in IntKeys : \E v \in Vals :
          KVTrySet(t, s, k, v)
    \/ \E t \in Writers : KVTrySetExec(t)
    \/ \E t \in Writers : \E s \in StoreNames : \E k \in IntKeys : KVTryGet(t, s, k)

SpecDisjoint == InitDisjoint /\ [][NextDisjoint]_vars

\* one goroutine calls the functions of three stores New made on the shared handle
InitTables == load = "tables" /\ InitStore

NextTables ==
    \/ \E t \in Writers : \E s \in StoreNames : \E k \in IntKeys : \E v \in Vals :
          KVTrySet(t, s, k, v)
    \/ \E t \in Writers : KVTrySetExec(t)
    \/ \E t \in Writers : \E s \in StoreNames : \E k \in IntKeys : KVTryDelete(t, s, k)
    \/ \E t \in Writers : KVTryDeleteExec(t)
    \/ \E t \in Writers : \E s \in StoreNames : \E k \in IntKeys : KVTryGet(t, s, k)
    \/ \E t \in Writers : \E s \in StoreNames : \E k \in IntKeys : KVTryHas(t, s, k)
    \/ \E t \in Writers : \E s \in StoreNames : KVTryClear(t, s)

SpecTables == InitTables /\ [][NextTables]_vars

\* the steps a goroutine takes inside a call it has made: the Go scheduler runs
\* every goroutine that can take a step.  Making a call, and receiving from a
\* channel, are up to the caller and the consumer.
Progress ==
    \/ \E t \in Writers :
          \/ TrySetExec(t) \/ TryDeleteExec(t) \/ Return(t) \/ NotifyRLock(t)
          \/ NotifyNext(t) \/ SelectSend(t) \/ SelectStopped(t) \/ NotifyReturn(t)
    \/ \E w \in Subs : WatchRegister(w)
    \/ \E w \in Subs : \E c \in Callers :
          CancelLock(w, c) \/ CancelRemove(w, c) \/ CancelClose(w, c)
    \/ StopAllRun

\* the burst workload alone, with the scheduler's fairness
InitBurst == Init /\ load = "burst"

FairBurst == InitBurst /\ [][Next]_vars /\ WF_vars(Progress)

(***************************************************************************)
(* Vocabulary of the properties                                            *)
(***************************************************************************)
\* writer t is inside notify, at the select for watcher w, whose buffer is full
BlockedOn(t, w) ==
    call[t].pc = "select" /\ call[t].cur = w /\ Len(ws[w].ch) = ChanCap

\* a cancel call of w is past w.stop() and has not yet been through the lock
Cancelling(w) == \E c \in Callers : cpc[w][c] \in {"lock", "remove"}

\* a cancel call of w has returned
CancelReturned(w) == \E c \in Callers : cpc[w][c] = "done"

\* this step places an event on the channel of w
Enqueued(w) == Len(ws'[w].ch) > Len(ws[w].ch)

\* writer t is blocked on a full buffer whose subscription is not cancelled: only
\* a consumer can let it go on
HeldBySlowConsumer(t) ==
    \E w \in Subs : BlockedOn(t, w) /\ ~ws[w].stopCh

\* the call of writer t has returned success after its write was applied
Applied(t) == call[t].pc = "ret" /\ call[t].result = "ok" /\ call[t].seq > 0

C2_EventsInWriteOrder ==
    \A w \in Subs : \A i, j \in DOMAIN ws[w].ch :
        i < j => ws[w].ch[i].seq < ws[w].ch[j].seq

(***************************************************************************)
(* C3: a Set, or a Delete that removed a row, made after Watch returned    *)
(* and returning before the subscription is cancelled, has placed exactly  *)
(* one event on every subscription that matches its key.                   *)
(***************************************************************************)
C3_EveryWriteDeliveredOnce ==
    \A t \in Writers : \A w \in Subs :
        (/\ Applied(t)
         /\ w \in call[t].liveAtCall
         /\ ~ws[w].stopCh
         /\ Matches(w, call[t].op.key))
            => call[t].delivered[w] = 1

(***************************************************************************)
(* C4: a channel never holds more than ChanCap (10) events; a writer at    *)
(* the select of a full, uncancelled subscription has made its backend     *)
(* write and can take no step; and a fan-out leaves a select without       *)
(* placing its event, or passes over a matching subscription, only when    *)
(* the subscription's stop signal is raised.                               *)
(***************************************************************************)
C4_BoundedBlockingQueue ==
    /\ [](\A w \in Subs : Len(ws[w].ch) <= ChanCap)
    /\ [](\A t \in Writers : \A w \in Subs :
            BlockedOn(t, w) /\ ~ws[w].stopCh /\ ~ws[w].chClosed
                => /\ call[t].seq > 0
                   /\ ~ENABLED SelectSend(t)
                   /\ ~ENABLED SelectStopped(t))
    /\ [][\A t \in Writers :
            (/\ call[t].pc = "select"
             /\ call'[t].pc # "select"
             /\ call'[t].delivered = call[t].delivered)
                => ws[call[t].cur].stopCh]_vars
    /\ [][\A t \in Writers : \A w \in Subs :
            (/\ call[t].pc = "range"
             /\ call'[t].pc = "range"
             /\ w \in call[t].todo \ call'[t].todo
             /\ Matches(w, call[t].op.key))
                => ws[w].stopCh]_vars

C4_Witness ==
    \E t \in Writers : \E w \in Subs :
        BlockedOn(t, w) /\ ~ws[w].stopCh /\ call[t].seq > 0

(***************************************************************************)
(* C5: every call of a subscription's cancel function, the second and      *)
(* later ones included, returns normally; once they have all returned the  *)
(* subscription is out of the registry and its channel is closed.          *)
(***************************************************************************)
C5_CancelIdempotent ==
    \A w \in Subs :
        /\ \A c \in Callers : cpc[w][c] # "panic"
        /\ fault # "close of closed channel"
        /\ (\A c \in Callers : cpc[w][c] = "done")
              => ws[w].chClosed /\ w \notin MapValues(watchers)

(***************************************************************************)
(* C6: once a call of a subscription's cancel function has returned, the   *)
(* channel is closed, a consumer that has drained it sees the end of the   *)
(* stream, and no event is placed on it any more (so none by a Set or      *)
(* Delete that starts afterwards).                                         *)
(***************************************************************************)
C6_NothingAfterCancel ==
    /\ [](\A w \in Subs : CancelReturned(w) =>
            /\ ws[w].chClosed
            /\ (ws[w].ch = << >> /\ cons[w] = "ranging" /\ Alive) => ENABLED RecvEnd(w))
    /\ [][\A w \in Subs : CancelReturned(w) => ~Enqueued(w)]_vars
    /\ [](\A t \in Writers : \A w \in call[t].goneAtCall :
            CancelReturned(w) => call[t].delivered[w] = 0)

C6_Witness ==
    \E t \in Writers : \E w \in Subs \ swept :
        /\ CancelReturned(w)
        /\ w \in call[t].goneAtCall
        /\ Applied(t)
        /\ Matches(w, call[t].op.key)
        /\ call[t].delivered[w] = 0
        /\ ws[w].chClosed

(***************************************************************************)
(* C7: from the moment a subscription's stop signal is raised, no fan-out  *)
(* places an event on its channel.                                         *)
(***************************************************************************)
C7_NoSendAfterSignal ==
    [][\A w \in Subs : ws[w].stopCh => ~Enqueued(w)]_vars

(***************************************************************************)
(* C8: a step of the cancel function of one subscription leaves the table, *)
(* the calls in progress, the other subscriptions and their registration   *)
(* as they were, and does not end the process.                             *)
(***************************************************************************)
C8_CancelFrame ==
    [][\A w \in Subs : cpc'[w] # cpc[w] =>
          /\ db' = db
          /\ call' = call
          /\ fault' = fault
          /\ \A o \in Subs \ {w} :
                /\ ws'[o] = ws[o]
                /\ (o \in MapValues(watchers')) = (o \in MapValues(watchers))]_vars

(***************************************************************************)
(* C9: when StopAllWatchers returns the registry is empty, and no          *)
(* subscription registered before it is in the registry or gets an event   *)
(* afterwards.                                                             *)
(***************************************************************************)
C9_StopAllEmptiesRegistry ==
    /\ [][spc = "locked" /\ spc' = "idle" => watchers' = {}]_vars
    /\ [](swept \cap MapValues(watchers) = {})
    /\ [][\A w \in swept : ~Enqueued(w)]_vars
    /\ [](\A t \in Writers : \A w \in call[t].goneAtCall \cap swept :
            call[t].delivered[w] = 0)

C9_Witness ==
    \E t \in Writers : \E w \in swept :
        /\ \A c \in Callers : cpc[w][c] = "idle"
        /\ w \in call[t].goneAtCall
        /\ Applied(t)
        /\ Matches(w, call[t].op.key)
        /\ call[t].delivered[w] = 0
        /\ watchers = {}

(***************************************************************************)
(* C10: after StopAllWatchers has returned, the channel of every           *)
(* subscription registered before it is closed.                            *)
(***************************************************************************)
C10_StopAllClosesStreams ==
    \A w \in swept : ws[w].chClosed

(***************************************************************************)
(* C11: while a Set/Delete is blocked in the fan-out on a full buffer and  *)
(* StopAllWatchers has been called, one of the two can go on without a     *)
(* consumer receiving: StopAllWatchers can take the lock, or the blocked   *)
(* select can take its stopped branch.                                     *)
(***************************************************************************)
C11_StopAllInterruptsDelivery ==
    \A t \in Writers : \A w \in Subs :
        (BlockedOn(t, w) /\ spc = "locked" /\ Alive)
            => (ENABLED StopAllRun \/ ENABLED SelectStopped(t))

(***************************************************************************)
(* C12: the previous value of the event a Set or Delete builds is the      *)
(* value the record held when the backend applied the write (the zero      *)
(* value when there was no record).                                        *)
(***************************************************************************)
C12_EventCarriesReplacedValue ==
    [][\A t \in Writers :
          (call[t].pc = "exec" /\ call'[t].pc = "rlock")
              => EventOf(t).old = db[call[t].op.key]]_vars

(***************************************************************************)
(* C13: a Delete goes on to the fan-out only when its statement removed a  *)
(* row; every Delete event on a channel comes from a write that removed a  *)
(* row, and a Delete that removed nothing has placed no event.             *)
(***************************************************************************)
C13_DeleteEventOnlyForRemovedRow ==
    /\ [][\A t \in Writers :
            (/\ call[t].op.type = "Delete"
             /\ call[t].pc = "exec"
             /\ call'[t].pc = "rlock")
                => db[call[t].op.key] # NoVal /\ db'[call[t].op.key] = NoVal]_vars
    /\ [](\A w \in Subs : \A i \in DOMAIN ws[w].ch :
            ws[w].ch[i].type = "Delete" => ws[w].ch[i].seq > 0)
    /\ [](\A t \in Writers :
            (call[t].op.type = "Delete" /\ call[t].seq = 0)
                => /\ call[t].pc \notin {"rlock", "range", "select"}
                   /\ \A w \in Subs : call[t].delivered[w] = 0)

C13_Witness ==
    \E t \in Writers : \E w \in Subs :
        /\ call[t].op.type = "Delete"
        /\ call[t].pc = "ret"
        /\ call[t].result = "ok"
        /\ call[t].seq = 0
        /\ call[t].hadOldValue
        /\ w \in call[t].liveAtCall
        /\ Matches(w, call[t].op.key)
        /\ ~ws[w].stopCh
        /\ call[t].delivered[w] = 0

(***************************************************************************)
(* C14: every event on the channel of an exact-key subscription has a key  *)
(* whose rendering equals the rendering of the subscribed key, and every   *)
(* event on the channel of a prefix subscription has a key whose rendering *)
(* starts with the prefix; and a Set, or a Delete that removed a row, that *)
(* has returned has placed one event on every subscription that was live   *)
(* at the call, is in the registry and satisfies this rule, and none on    *)
(* any other.                                                              *)
(***************************************************************************)
C14_Rule(w, k) ==
    IF ws[w].key # None
    THEN Render(k) = Render(ws[w].key)
    ELSE \E n \in 0..Len(Render(k)) : SubSeq(Render(k), 1, n) = ws[w].prefix

C15_OneEventPerMatchingSubscription ==
    \A t \in Writers : \A w1, w2 \in Subs :
        (/\ Applied(t)
         /\ w1 # w2
         /\ {w1, w2} \subseteq call[t].liveAtCall
         /\ ~ws[w1].stopCh /\ ~ws[w2].stopCh
         /\ Matches(w1, call[t].op.key) /\ Matches(w2, call[t].op.key))
            => call[t].delivered[w1] = 1 /\ call[t].delivered[w2] = 1

(***************************************************************************)
(* C16: when fn returns an error, Transaction returns an error, the        *)
(* rollback leaves the table as it is, no write of the transaction has     *)
(* reached the table, and (no store-level write having been applied since  *)
(* Transaction was called) the table is what it was when Transaction was   *)
(* called.                                                                 *)
(***************************************************************************)
C16_RollbackRestoresStore ==
    /\ [](tx.pc = "done" /\ tx.fnErr
            => /\ tx.result = "err"
               /\ ~tx.wrote
               /\ nextSeq = tx.startSeq => db = tx.start)
    /\ [][tx.pc = "end" /\ tx.fnErr /\ tx'.pc = "done" => db' = db]_vars

C16_Witness ==
    /\ tx.pc = "done"
    /\ tx.fnErr
    /\ tx.result = "err"
    /\ nextSeq = tx.startSeq
    /\ \E k \in Keys : tx.start[k] # NoVal /\ tx.last[k] \notin {Unwritten, tx.start[k]}
    /\ db = tx.start

(***************************************************************************)
(* C17: a step of the transaction changes the table only at a successful   *)
(* commit, and that one step puts every write of the transaction into the  *)
(* table; while the transaction holds its writes the table does not        *)
(* change, so no state of the table has some of the writes and not all.    *)
(***************************************************************************)
C17_CommitPublishesAllWrites ==
    /\ [][tx' # tx /\ db' # db
            => /\ tx.pc = "end" /\ ~tx.fnErr
               /\ tx'.pc = "done" /\ tx'.result = "ok"
               /\ \A k \in Keys :
                     db'[k] = IF tx.last[k] # Unwritten THEN tx.last[k] ELSE db[k]]_vars
    /\ [][tx.wrote /\ tx'.wrote => db' = db]_vars
    /\ [](tx.pc = "done" /\ tx.result = "ok" /\ nextSeq = tx.startSeq
            => \A k \in Keys :
                  db[k] = IF tx.last[k] # Unwritten THEN tx.last[k] ELSE tx.start[k])

C17_Witness ==
    /\ tx.pc = "done"
    /\ tx.result = "ok"
    /\ \A k \in Keys : tx.last[k] \notin {Unwritten, tx.start[k]} /\ db[k] = tx.last[k]

(***************************************************************************)
(* C18: Tx.Get of a key the transaction has written returns the value it   *)
(* wrote last; a TryGet outside the transaction, made while it is open,    *)
(* returns the committed value, which is the value the key had when        *)
(* Transaction was called if no store-level write was applied since; and   *)
(* the Tx operations leave the committed table as it is.                   *)
(***************************************************************************)
C18_ReadYourWritesAndIsolation ==
    /\ [](tx.expect # Unwritten => tx.got = tx.expect)
    /\ [](rd.op = "Get" /\ rd.pre # Unwritten => rd.got = rd.pre)
    /\ [][tx'.ops # tx.ops => db' = db]_vars

C18_Witness ==
    /\ TxActive
    /\ tx.expect # Unwritten
    /\ tx.got = tx.expect
    /\ rd.op = "Get"
    /\ rd.key = tx.gotKey
    /\ rd.pre # Unwritten
    /\ rd.txLast \notin {Unwritten, rd.got}

(***************************************************************************)
(* C19: no step of a transaction (its operations, its commit, its          *)
(* rollback) changes a watcher, a channel, the registry or a fan-out in    *)
(* progress: while no store-level write has been applied every channel is  *)
(* empty, whatever the transaction wrote.                                  *)
(***************************************************************************)
C19_TransactionsEmitNoEvents ==
    /\ [][tx' # tx => ws' = ws /\ watchers' = watchers /\ call' = call]_vars
    /\ [](nextSeq = 0 => \A w \in Subs : ws[w].ch = << >> /\ ws[w].lastSeq = 0)

C19_Witness ==
    \E w \in tx.liveAtBegin : \E k \in Keys :
        /\ tx.pc = "done"
        /\ tx.result = "ok"
        /\ Matches(w, k)
        /\ tx.last[k] \notin {Unwritten, tx.start[k]}
        /\ db[k] = tx.last[k]
        /\ nextSeq = 0
        /\ ws[w].ch = << >>

C21_StoreBehavesLikeAMap ==
    /\ \A t \in Writers :
          cl[t].pc = "idle" =>
            /\ cl[t].fn = "Get" =>
                 IF cl[t].want # NoVal
                 THEN cl[t].result = "ok" /\ cl[t].got = cl[t].want
                 ELSE cl[t].result = "ErrNoRows"
            /\ cl[t].fn = "Has" => (cl[t].has <=> cl[t].want # NoVal)
            /\ (cl[t].fn = "Delete" /\ cl[t].want = NoVal) =>
                 (cl[t].result = "ok" /\ ~cl[t].changed)
    /\ \A p \in PhysTables : \A r1, r2 \in tables[p] : r1.key = r2.key => r1 = r2

C21_Witness ==
    \E t \in Writers :
        /\ cl[t].pc = "idle" /\ cl[t].fn = "Get" /\ cl[t].result = "ok"
        /\ cl[t].got = "v2" /\ cl[t].key = 10
        /\ Cardinality(tables["kv"]) = 2

(***************************************************************************)
(* C22: a forward iteration (All, Iter, TryForEach) invokes the callback   *)
(* once for every row of the table, in ascending order of the encoded key, *)
(* and a backward iteration (Backward, IterReverse, TryForEachReverse) in  *)
(* descending order of the encoded key, whatever the order of insertion.   *)
(***************************************************************************)
C22_IterationInEncodedKeyOrder ==
    \A t \in Writers :
        cl[t].fn \in Iterators =>
          /\ \A i, j \in 1..Len(cl[t].visited) :
                i < j =>
                  IF cl[t].fn \in Forward
                  THEN BytesLess(FormatInt(cl[t].visited[i]), FormatInt(cl[t].visited[j]))
                  ELSE BytesLess(FormatInt(cl[t].visited[j]), FormatInt(cl[t].visited[i]))
          /\ {FormatInt(cl[t].visited[i]) : i \in 1..Len(cl[t].visited)}
                \subseteq {r.key : r \in cl[t].snapshot}
          /\ (cl[t].pc = "idle" /\ ~cl[t].stopped) =>
                Len(cl[t].visited) = Cardinality(cl[t].snapshot)

C22_Witness ==
    \E t \in Writers :
        /\ cl[t].pc = "idle" /\ cl[t].fn = "Backward" /\ ~cl[t].stopped
        /\ cl[t].visited = <<2, 10, 1>>

(***************************************************************************)
(* C23: for a store with integer keys a forward iteration visits the keys  *)
(* in ascending numeric order and a backward iteration in descending       *)
(* numeric order.                                                          *)
(***************************************************************************)
C23_IntegerKeysInNumericOrder ==
    \A t \in Writers :
        cl[t].fn \in Iterators =>
          \A i, j \in 1..Len(cl[t].visited) :
              i < j =>
                IF cl[t].fn \in Forward
                THEN cl[t].visited[i] < cl[t].visited[j]
                ELSE cl[t].visited[i] > cl[t].visited[j]

(***************************************************************************)
(* C24: when the callback returns false at the n-th row, the iterating     *)
(* function invokes it for no further row, closes the cursor and returns   *)
(* normally; the callback has been invoked for exactly the first n rows in *)
(* the order of the iteration.                                             *)
(***************************************************************************)
C24_EarlyStopReleasesCursor ==
    \A t \in Writers :
        cl[t].stopped =>
          /\ cl[t].pc = "idle" /\ cl[t].result = "ok" /\ Alive
          /\ cl[t].cursor = "closed"
          /\ ~ENABLED KVYield(t, TRUE) /\ ~ENABLED KVYield(t, FALSE)
          /\ LET order == IF cl[t].fn \in Forward THEN OrderByKey(cl[t].snapshot)
                          ELSE OrderByKeyDesc(cl[t].snapshot)
                 n == Len(cl[t].visited)
             IN  /\ n >= 1 /\ n <= Len(order)
                 /\ \A i \in 1..n : FormatInt(cl[t].visited[i]) = order[i].key

C24_Witness ==
    \E t \in Writers :
        /\ cl[t].stopped /\ cl[t].fn = "Iter"
        /\ Len(cl[t].visited) = 2 /\ Len(cl[t].pending) = 1

(***************************************************************************)
(* C25: GetOr(k, d) returns the stored value when the table has a row for  *)
(* k and d when it has none; it leaves the table as it is and places no    *)
(* event on any channel.                                                   *)
(***************************************************************************)
C25_GetOrReadsOnly ==
    [][(rd'.op = "GetOr" /\ rd'.n = rd.n + 1) =>
          /\ rd'.got = IF db[rd'.key] = NoVal THEN rd'.dflt ELSE db[rd'.key]
          /\ db' = db
          /\ nextSeq' = nextSeq
          /\ \A w \in Subs : ws'[w].ch = ws[w].ch]_vars

C25_Witness ==
    /\ rd.op = "GetOr" /\ rd.got = rd.dflt /\ db[rd.key] = NoVal /\ nextSeq = 0
    /\ \E w \in Subs : ws[w].state = "live" /\ ws[w].key = rd.key /\ ws[w].ch = << >>

(***************************************************************************)
(* C26: two stores with different table names on one backend handle are    *)
(* isolated: what Get and Has find in a store is what that store's own     *)
(* Set, Delete and Clear calls have left there, whatever calls are made on *)
(* the other stores.                                                       *)
(***************************************************************************)
C26_StoresIsolated ==
    \A s \in StoreNames : \A k \in IntKeys :
        SelectWhereKey(tables[TableOf(s)], FormatInt(k)) =
            IF shadow[s][k] = NoVal THEN {}
            ELSE {Row(FormatInt(k), MarshalString(shadow[s][k]))}

C30_Outcome(t) ==
    IF call[t].nx.had
    THEN /\ call[t].pc = "ret" => call[t].nx.out = call[t].nx.val
         /\ call[t].pc # "panic"
         /\ call[t].seq = 0
         /\ \A w \in Subs : call[t].delivered[w] = 0
    ELSE /\ call[t].pc \in {"rlock", "range", "select", "ret"} =>
             /\ call[t].seq > 0
             /\ ~call[t].hadOldValue
             /\ EventOf(t) = Event("Set", call[t].op.key, call[t].op.value, NoVal,
                                   call[t].seq)
         /\ call[t].pc = "ret" =>
             /\ call[t].result = "ok"
             /\ call[t].nx.out = call[t].op.value
             /\ \A w \in call[t].liveAtCall \cap MapValues(watchers) :
                    call[t].delivered[w] = IF Matches(w, call[t].op.key) THEN 1 ELSE 0

(***************************************************************************)
(* C30: SetNX(k, v) returns the existing value and makes no write and no   *)
(* event when the table had a row for k at its check; otherwise it stores  *)
(* v, places one Set event with no previous value on every matching        *)
(* subscription of the registry, and returns v.                            *)
(***************************************************************************)
C30_SetNXStoresOnlyWhenAbsent ==
    \A t \in Writers : call[t].nx.on => C30_Outcome(t)

\* C30, as it holds: the same, for a call of SetNX during which no other write
\* was applied between its check and the first statement of the Get or Set that
\* followed
C30_SetNXWhenUndisturbed ==
    \A t \in Writers :
        (call[t].nx.on /\ call[t].pc \in {"exec", "rlock", "range", "select", "ret", "panic"}
            /\ call[t].nx.clean)
           => C30_Outcome(t)

C30_Witness ==
    \E t \in Writers : \E w \in Subs :
        /\ call[t].nx.on /\ call[t].pc = "ret" /\ ~call[t].nx.had /\ call[t].nx.clean
        /\ call[t].delivered[w] = 1
        /\ \E u \in Writers \ {t} : call[u].pc = "exec"

(***************************************************************************)
(* C28: the shared handle is made at most once in a process: whatever      *)
(* calls of New are made, concurrent first calls included, the function of *)
(* dbOnce.Do is started once, sql.Open returns one handle, and every store *)
(* New returns is bound to that handle.                                    *)
(***************************************************************************)
C28_SharedHandleMadeOnce ==
    /\ boot.runs <= 1
    /\ boot.opens <= 1
    /\ (\E t \in Writers : boot.new[t].pc \notin {"idle", "once"}) => boot.runs = 1
    /\ Cardinality({t \in Writers : boot.new[t].first}) <= 1
    /\ \A t \in Writers :
          boot.new[t].result = "store" =>
             (boot.new[t].db = boot.sharedDB /\ boot.sharedDB # 0)

C28_Witness ==
    /\ \A t \in Writers : boot.new[t].result = "store" /\ boot.new[t].pc = "idle"
    /\ \E t \in Writers : ~boot.new[t].first
    /\ budget = MaxCalls - 2

(***************************************************************************)
(* C29: when the initialisation of the shared handle fails (MkdirAll,      *)
(* sql.Open or a pragma), the call of New that ran it fails and so does    *)
(* every later call of New: New returns no store bound to a missing or     *)
(* partly tuned handle.                                                    *)
(***************************************************************************)
C29_FailedInitFailsEveryNew ==
    \A t \in Writers :
        boot.new[t].result = "store" =>
           /\ boot.sharedDB # 0
           /\ boot.tuned = Len(Pragmas)
           /\ boot.pooled

(***************************************************************************)
(* C31: Transaction reports each failure and drops none: when fn returns   *)
(* an error and the rollback succeeds, fn's error itself is returned; when *)
(* the rollback fails too, the error returned carries the rollback's error *)
(* and fn's error; when fn succeeds and the commit fails, a commit failure *)
(* is returned; nil is returned only when fn and the commit succeeded.     *)
(***************************************************************************)
C31_TransactionReportsEveryFailure ==
    LET parts == {tx.err[i] : i \in DOMAIN tx.err}
    IN  tx.pc = "done" =>
          /\ (tx.fnErr /\ tx.failed = "none") => tx.err = <<"fn error">>
          /\ (tx.fnErr /\ tx.failed = "rollback") =>
                {"rollback failed", "rollback error", "fn error"} \subseteq parts
          /\ (~tx.fnErr /\ tx.failed = "commit") =>
                ({"commit failed", "commit error"} \subseteq parts
                    /\ "rollback failed" \notin parts)
          /\ (tx.result = "ok") <=> (tx.err = << >>)
          /\ (tx.result = "ok") <=> (~tx.fnErr /\ tx.failed = "none")

C31_Witness ==
    /\ tx.pc = "done" /\ tx.fnErr /\ tx.failed = "rollback" /\ tx.ops = MaxTxOps
    /\ Len(tx.err) = 3

(***************************************************************************)
(* C32: a TrySet whose value cannot be serialized or whose statement       *)
(* fails, and a TryDelete whose statement fails, return the error, leave   *)
(* the table as it was and emit no event: the failing step changes neither *)
(* the table nor any subscription, the call never gets a write of its own, *)
(* and after the failure it only returns.  A value that cannot be          *)
(* serialized never reaches the table.                                     *)
(***************************************************************************)
C32_FailedWriteChangesNothing ==
    [][\A t \in Writers :
          /\ (call[t].pc = "exec" /\ call'[t].result = "err") =>
                /\ call'[t].pc = "ret"
                /\ call'[t].seq = 0
                /\ db' = db /\ nextSeq' = nextSeq
                /\ ws' = ws /\ watchers' = watchers
          /\ (call[t].result = "err" /\ call'[t] # call[t]) => call'[t] = IdleCall
          /\ (call[t].pc = "exec" /\ call[t].op.type = "Set"
                /\ ~(call[t].op.value \in Vals) /\ call'[t] # call[t]) =>
                call'[t].result = "err"
          /\ \A k \in Keys : db'[k] \in Vals \cup {NoVal}]_vars

\* a Set of a value that cannot be serialized has failed over a stored row while
\* a subscription on its key is registered and has received the earlier event
C32_Witness ==
    \E t \in Writers : \E w \in Subs :
        /\ call[t].pc = "ret" /\ call[t].result = "err"
        /\ call[t].op = SetOp("k1", Unserializable)
        /\ db["k1"] = "v1"
        /\ ws[w].state = "live" /\ ws[w].key = "k1" /\ ws[w].lastSeq = 1
        /\ ws[w].ch = << >>

(***************************************************************************)
(* C33: an iteration in which opening the cursor, scanning a row or        *)
(* decoding a key or a value failed never returns as if it were complete:  *)
(* it returns an error or ends in a panic.                                 *)
(***************************************************************************)
C33_IterationFailureIsReported ==
    \A t \in Writers :
        (cl[t].pc = "idle" /\ cl[t].fn \in Iterators /\ cl[t].failed) =>
            (cl[t].result = "err" \/ fault # None)

(***************************************************************************)
(* C34: the set of subscriptions in the registry does not change while a   *)
(* fan-out is in progress: no step taken while a goroutine is inside       *)
(* notify changes the registry, and the subscriptions a fan-out has still  *)
(* to visit, and the one it is delivering to, are in the registry.         *)
(***************************************************************************)
C34_RegistryStableDuringFanOut ==
    [][/\ readers # {} => watchers' = watchers
       /\ \A t \in Writers :
             call[t].pc \in {"range", "select"} =>
                /\ t \in readers
                /\ call[t].todo \subseteq MapValues(watchers)
                /\ call[t].pc = "select" => call[t].cur \in MapValues(watchers)]_vars

\* a cancel has raised its signal and waits in Lock() for a fan-out that has
\* still to visit the cancelled subscription, while a second fan-out runs
C34_Witness ==
    \E w \in Subs : \E c \in Callers : \E t \in Writers :
        /\ cpc[w][c] = "remove" /\ ws[w].stopCh
        /\ readers = Writers
        /\ call[t].pc = "range" /\ w \in call[t].todo
        /\ w \in MapValues(watchers)

(***************************************************************************)
(* C35: while a transaction holds the backend's writer lock, a Set or      *)
(* Delete made outside it is never applied: the only step such a call can  *)
(* take is to fail, and the failure changes neither the table nor any      *)
(* subscription and gives the call no write and no event.  Otherwise the   *)
(* call waits, and its write is applied once the transaction has ended.    *)
(***************************************************************************)
C35_NoStoreWriteInsideTransaction ==
    [][\A t \in Writers :
          (tx.wrote /\ call[t].pc = "exec" /\ call'[t] # call[t]) =>
              /\ call'[t].pc = "ret" /\ call'[t].result = "err"
              /\ call'[t].seq = 0
              /\ \A w \in Subs : call'[t].delivered[w] = 0
              /\ db' = db /\ nextSeq' = nextSeq
              /\ \A w \in Subs : ws'[w].ch = ws[w].ch]_vars

\* a Set made outside the transaction waits for the writer lock of a transaction
\* that has written and is still open, while a subscription on the key is live
C35_Witness ==
    \E t \in Writers : \E w \in Subs :
        /\ tx.pc = "open" /\ tx.wrote
        /\ call[t].pc = "exec" /\ call[t].op.type = "Set"
        /\ ~ENABLED TrySetExec(t)
        /\ ws[w].state = "live" /\ ws[w].key = call[t].op.key

(***************************************************************************)
(* C36: a cancel of subscription A that waits for the exclusive lock is    *)
(* not held by the slow consumer of another subscription: when every       *)
(* goroutine inside notify is blocked on the full buffer of a subscription *)
(* other than A whose signal is not raised, the cancel can take the lock.  *)
(***************************************************************************)
C36_CancelNotHeldByOtherConsumer ==
    \A a \in Subs : \A c \in Callers :
        ( /\ Alive
          /\ cpc[a][c] = "remove"
          /\ readers # {}
          /\ \A t \in readers :
                \E b \in Subs \ {a} : BlockedOn(t, b) /\ ~ws[b].stopCh )
            => ENABLED CancelRemove(a, c)

(***************************************************************************)
(* C37: a subscription receives no event of a mutation whose write the     *)
(* backend applied before Watch registered the subscription: every event   *)
(* a call places goes to a subscription registered when the call's write   *)
(* was applied.                                                            *)
(***************************************************************************)
C37_NoEventFromBeforeRegistration ==
    \A t \in Writers : \A w \in Subs :
        call[t].delivered[w] > 0 => w \in call[t].regAtWrite

(***************************************************************************)
(* C38: no fan-out sends on a closed channel: no run ends in the panic of  *)
(* a send on a closed channel, no subscription in the registry has its     *)
(* channel closed, and no select of notify is at a closed channel.         *)
(***************************************************************************)
C38_NoSendOnClosedStream ==
    /\ fault # "send on closed channel"
    /\ \A w \in MapValues(watchers) : ~ws[w].chClosed
    /\ \A t \in Writers :
          call[t].pc = "select" => ~ws[call[t].cur].chClosed

\* a Set was called on the key of a live subscription, the subscription was
\* cancelled and its channel closed, and the Set's fan-out is then in progress
C38_Witness ==
    \E t \in Writers : \E w \in Subs :
        /\ ws[w].chClosed
        /\ w \in call[t].liveAtCall
        /\ call[t].pc = "range" /\ t \in readers
        /\ Matches(w, call[t].op.key)
        /\ Alive

(***************************************************************************)
(* C39: every subscription that Watch has returned and that is neither     *)
(* cancelled nor stopped is in the registry, and two such subscriptions    *)
(* have different ids.                                                     *)
(***************************************************************************)
C39_LiveSubscriptionsRegistered ==
    /\ \A w \in LiveSubs : w \in MapValues(watchers)
    /\ \A w1, w2 \in LiveSubs : w1 # w2 => ws[w1].id # ws[w2].id

(***************************************************************************)
(* C40: the stopped flag of a subscription is not written by one goroutine *)
(* while another reads it with nothing ordering the two: whenever a        *)
(* goroutine inside notify has still to read the flag of a subscription,   *)
(* no cancel can write that flag at the same time.                         *)
(***************************************************************************)
C40_StoppedFlagOrderedByLock ==
    \A t \in Writers : \A w \in Subs : \A c \in Callers :
        (call[t].pc = "range" /\ w \in call[t].todo /\ ~ws[w].stopped)
            => ~ENABLED CancelStop(w, c)

====
